---- MODULE Spec2Model ----
(***************************************************************************)
(* Model of the trip planner's client state machines and of the realtime   *)
(* store they read and write: the profile selector (PIN gate), the group   *)
(* chat (compose, reactions, pins, menus, long press) and the              *)
(* availability calendar.                                                  *)
(*                                                                         *)
(* Every remote call is split at its suspension point: the handler up to   *)
(* the call is one action, the store serving the request is one action,    *)
(* and the continuation after the await is one action.                     *)
(***************************************************************************)
EXTENDS Integers, Sequences, FiniteSets, Bags, TLC

VARIABLES
    \* ---- remote store ----
    pins,            \* users/{name}/pin
    \* ---- App shell, per client ----
    currentUser,     \* App.currentUser
    \* ---- ProfileSelector, per client ----
    selectedFriend, mode, loading, error, pinDigits,
    focus,           \* the PIN field that has the input focus
    tasks,           \* the bag of the client's async calls not yet resumed
    \* ---- remote store, chat and calendar ----
    messages,        \* messages/{id}
    availability,    \* availability/{date}/{user}
    \* ---- GroupChat, per client ----
    localMessages,   \* the messages state: the last snapshot as a list
    activeReactMenuId, activeActionId, skipNextClickRef,
    chatOutbox,      \* chat writes issued and not yet applied by the store
    newMessage, replyingTo, shouldAutoScroll,
    longPressTimeoutRef, \* the timer id the ref holds, NoTimer for null
    timers,          \* the long-press timeouts set and neither run nor cleared
    pointers,        \* the pointers in contact with a message: what they
                     \* press and for how long
    releaseClick,    \* the press whose pointer-up has been handled and
                     \* whose click event is about to be dispatched
    sendLog,         \* record of the sendMessage calls made
    pinLog,          \* record of the togglePin calls made
    \* ---- AvailabilityHeatmap, per client ----
    localAvailability,   \* the availability state: the last snapshot
    availOutbox,     \* calendar writes issued and not yet applied
    calLongPressTimeoutRef,  \* the timer id the heatmap's ref holds
    calTimers,       \* the heatmap's long-press timeouts set and neither
                     \* run nor cleared
    calPointers,     \* the pointers in contact with a date cell
    calClick,        \* the press on a date cell whose pointer-up has been
                     \* handled and whose click event is about to be
                     \* dispatched
    attendeeModalData,   \* App: the date and names of the open detail view
    \* ---- the render helpers: pure functions of their arguments ----
    args,            \* the arguments of a call of a render helper
    result,          \* what the call returned, NotCalled before it returns
    \* ---- GroupChat, per client: the pinned view and the scroll position ----
    showPinnedView,
    scrollGap,       \* scrollHeight - scrollTop - clientHeight of the main
                     \* list, in px
    smartScroll,     \* what the last run of the smart-scroll effect did
    lastControl,     \* the last control of a rendered message the user
                     \* clicked: the view it was rendered in and its effect
    \* ---- the onboarding photo ----
    avatars,         \* users/{name}/avatar
    imageSrc,        \* ProfileSelector.imageSrc, per client
    \* ---- record of the toggle calls made: who called, with what, and the
    \* ---- caller's own entry in its cache at that moment
    reactionLog, availLog

profileVars == <<pins, currentUser, selectedFriend, mode, loading, error,
                 pinDigits, focus, tasks>>

chatVars == <<messages, localMessages, activeReactMenuId, activeActionId,
              skipNextClickRef, chatOutbox, reactionLog>>

composeVars == <<newMessage, replyingTo, shouldAutoScroll, sendLog>>

pressVars == <<longPressTimeoutRef, timers, pointers, releaseClick>>

availVars == <<availability, localAvailability, availOutbox, availLog>>

pureVars == <<args, result>>

viewVars == <<showPinnedView, scrollGap, smartScroll, lastControl>>

photoVars == <<avatars, imageSrc>>

calVars == <<calLongPressTimeoutRef, calTimers, calPointers, calClick,
             attendeeModalData>>

vars == <<pins, currentUser, selectedFriend, mode, loading, error,
          pinDigits, focus, tasks,
          messages, localMessages, activeReactMenuId, activeActionId,
          skipNextClickRef, chatOutbox, reactionLog,
          newMessage, replyingTo, shouldAutoScroll, sendLog, pinLog,
          longPressTimeoutRef, timers, pointers, releaseClick,
          availability, localAvailability, availOutbox, availLog,
          calLongPressTimeoutRef, calTimers, calPointers, calClick,
          attendeeModalData, args, result,
          showPinnedView, scrollGap, smartScroll, lastControl,
          avatars, imageSrc>>

----------------------------------------------------------------------------
(* Bounds *)

Clients == {"c1", "c2"}
Solo == {"c1"}       \* the client of the single-client specifications
MaxTasks == 2        \* async calls in flight per client
MaxPending == 2      \* writes of one client the store has not applied yet
MaxList == 6         \* the longest message list the main list is rendered for
MaxReactors == 3     \* users with a reaction on one message
MaxPaste == 5        \* the longest text pasted into the PIN fields
MaxTotal == 12       \* the largest roster size the intensity is computed for
MaxTaps == 1         \* releases on date cells that are followed by a click
MaxTimers == 2       \* long-press timeouts of the heatmap pending at a time
MaxToggles == 3      \* toggleAvailability calls made by all clients together
MaxReactions == 2    \* toggleReaction calls made by all clients together
NumMessages == 1     \* messages in the log before the session
MaxSends == 1        \* sendMessage calls made by all clients together
MaxPins == 2         \* togglePin calls made by all clients together
MaxWrites == 2       \* send, reaction and pin calls together, where all
                     \* three kinds are made against one log
TicksPerPress == 3   \* clock steps in the long-press delay

(* Values *)

Null == "null"                       \* JS null / snapshot.val() of a missing path
FRIEND_GROUP == {"Ryan", "Drex"}     \* two names of the roster
Digits == {"1", "2"}
InputValues == {""} \cup Digits \cup {"x"}
\* what the user types into field index: the first three fields take "1"
\* only, the last one any digit, so the entries are "1111" and "1112"
TypedAt(index) == IF index < 4 THEN {"1", "x"} ELSE Digits \cup {"x"}
PinLen == 4
EmptyDigits == [i \in 1..PinLen |-> ""]

\* white space, which Number converts to 0 as it does ""
Whitespace == {" "}

\* isNaN(Number(value)): "" and white space convert to 0, a digit to itself,
\* a letter to NaN
IsNaNNumber(value) == value \notin ({""} \cup Digits \cup Whitespace)

\* pinDigits.join('')
Join(d) == d[1] \o d[2] \o d[3] \o d[4]

\* pinDigits.every(d => d !== '')
AllFilled(d) == \A i \in 1..PinLen : d[i] # ""

\* the pending calls without one copy of call t, and with one more
Without(b, t) == b (-) SetToBag({t})
With(b, t) == b (+) SetToBag({t})

----------------------------------------------------------------------------
(* The store's chat and calendar subtrees and the two components' state *)

EMOJIS == {"thumbsup", "heart"}          \* two of the six picker emojis
Dates == {"2025-10-01", "2025-10-02"}    \* two date keys, format yyyy-MM-dd
Absent == "absent"                       \* no key at that path
JsTrue == "true"                         \* the stored value true
JsFalse == "false"                       \* the stored value false
NoId == 0                                \* null where a message id is expected

EmptyMap == [k \in {} |-> ""]

CAL_LONG_PRESS_MS == 500   \* the delay of the heatmap's long-press timeout
NEAR_BOTTOM_PX == 100   \* handleScroll: the list is near the bottom below this
MAX_CHARS == 500
LONG_PRESS_MS == 450
SkipResetMs == 400                       \* the delay of the skipNextClickRef reset
ReplyMax == 120                          \* characters of a reply target kept
TickMs == LONG_PRESS_MS \div TicksPerPress
NoTimer == 0                             \* null where a timer id is expected

\* a text of n characters
RECURSIVE Rep(_)
Rep(n) == IF n = 0 THEN "" ELSE "a" \o Rep(n - 1)

\* text.trim(): the text without its leading and trailing spaces
RECURSIVE Trim(_)
Trim(text) ==
    IF text = "" THEN ""
    ELSE IF Head(text) = " " THEN Trim(Tail(text))
    ELSE IF SubSeq(text, Len(text), Len(text)) = " "
    THEN Trim(SubSeq(text, 1, Len(text) - 1))
    ELSE text

\* the drafts the user types, and what Date.now() returns
Drafts == {"", " ", " yo"}
Times == {10}

\* a message's replyTo when it has none, and replyingTo when it is null
NoReplyTo == [id |-> NoId, sender |-> "", text |-> ""]
NoMessage == [id |-> NoId, sender |-> "", text |-> "", timestamp |-> 0,
              isPinned |-> Null, reactions |-> EmptyMap, replyTo |-> NoReplyTo]

\* the pointers of a device: two fingers and a mouse
Pointers == {"touch1", "touch2", "mouse"}
PointerType(p) == IF p = "mouse" THEN "mouse" ELSE "touch"
NotPressing == [msgId |-> NoId, held |-> 0, on |-> "none"]

\* no click event waiting to be dispatched
NoClick == [pointer |-> "none", msgId |-> NoId, held |-> 0, on |-> "none"]

\* a pointer that is on no date cell, no click of a date cell waiting to be
\* dispatched, and attendeeModalData when it is null
NoDate == ""
NotOnDate == [date |-> NoDate, held |-> 0]
NoDateClick == [pointer |-> "none", date |-> NoDate, held |-> 0]
NoModal == [date |-> NoDate, names |-> {}]

\* the map without key k
RemoveKey(m, k) == [j \in DOMAIN m \ {k} |-> m[j]]

\* the map with key k set to v, the other keys kept
PutKey(m, k, v) == [j \in DOMAIN m \cup {k} |-> IF j = k THEN v ELSE m[j]]

\* m[k], or undefined (Null) when there is no such key
Lookup(m, k) == IF k \in DOMAIN m THEN m[k] ELSE Null

\* GroupChat's compose and press state as useState and useRef initialise it
\* the main list as mounted: the pinned view closed, the list at the
\* bottom, the smart-scroll effect has run once with shouldAutoScroll true
NoControl == [isPinnedView |-> FALSE, effect |-> "none"]
ViewIdle ==
    /\ showPinnedView = [c \in Clients |-> FALSE]
    /\ scrollGap = [c \in Clients |-> 0]
    /\ smartScroll = [c \in Clients |-> "scrolled"]
    /\ lastControl = [c \in Clients |-> NoControl]

ComposeIdle ==
    /\ newMessage = [c \in Clients |-> ""]
    /\ replyingTo = [c \in Clients |-> NoMessage]
    /\ shouldAutoScroll = [c \in Clients |-> TRUE]
    /\ sendLog = << >>
    /\ pinLog = << >>
    /\ ViewIdle

PressIdle ==
    /\ longPressTimeoutRef = [c \in Clients |-> NoTimer]
    /\ timers = [c \in Clients |-> {}]
    /\ pointers = [c \in Clients |-> [p \in Pointers |-> NotPressing]]
    /\ releaseClick = [c \in Clients |-> NoClick]

\* the chat and the calendar before any component is mounted
ChatIdle ==
    /\ messages = << >>
    /\ localMessages = [c \in Clients |-> << >>]
    /\ activeReactMenuId = [c \in Clients |-> NoId]
    /\ activeActionId = [c \in Clients |-> NoId]
    /\ skipNextClickRef = [c \in Clients |-> FALSE]
    /\ chatOutbox = [c \in Clients |-> << >>]
    /\ reactionLog = << >>
    /\ ComposeIdle
    /\ PressIdle

\* no render helper has been called
NoArgs == << >>
NotCalled == [done |-> FALSE]
Returned(v) == [done |-> TRUE, value |-> v]

HelpersIdle ==
    /\ args = NoArgs
    /\ result = NotCalled

AvailIdle ==
    /\ availability = [d \in Dates |-> [u \in FRIEND_GROUP |-> Absent]]
    /\ localAvailability =
           [c \in Clients |-> [d \in Dates |-> [u \in FRIEND_GROUP |-> Absent]]]
    /\ availOutbox = [c \in Clients |-> << >>]
    /\ availLog = << >>
    /\ calLongPressTimeoutRef = [c \in Clients |-> NoTimer]
    /\ calTimers = [c \in Clients |-> {}]
    /\ calPointers = [c \in Clients |-> [p \in Pointers |-> NotOnDate]]
    /\ calClick = [c \in Clients |-> NoDateClick]
    /\ attendeeModalData = [c \in Clients |-> NoModal]

\* every client signed in, the selector unmounted
\* no avatar stored, no image chosen
PhotoIdle ==
    /\ avatars = [n \in FRIEND_GROUP |-> Null]
    /\ imageSrc = [c \in Clients |-> Null]

SignedIn ==
    /\ PhotoIdle
    /\ pins = [n \in FRIEND_GROUP |-> "1111"]
    /\ currentUser \in [Clients -> FRIEND_GROUP]
    /\ selectedFriend = [c \in Clients |-> Null]
    /\ mode = [c \in Clients |-> Null]
    /\ loading = [c \in Clients |-> FALSE]
    /\ error = [c \in Clients |-> ""]
    /\ pinDigits = [c \in Clients |-> EmptyDigits]
    /\ focus = [c \in Clients |-> 1]
    /\ tasks = [c \in Clients |-> EmptyBag]

----------------------------------------------------------------------------
(* GroupChat *)

\* a mutation of SnapshotList: the entries come in reverse key order
SnapshotListReversed(store) ==
    [k \in DOMAIN store |->
        LET j == Len(store) + 1 - k
        IN [id |-> j, sender |-> store[j].sender, text |-> store[j].text,
            timestamp |-> store[j].timestamp,
            isPinned |-> store[j].isPinned, reactions |-> store[j].reactions,
            replyTo |-> store[j].replyTo]]

\* Object.entries(data).map(([key, value]) => ({id: key, ...value})), or []
\* for a null snapshot; the keys of the log are 1..n in push order
SnapshotList(store) ==
    [k \in DOMAIN store |->
        [id |-> k, sender |-> store[k].sender, text |-> store[k].text,
         timestamp |-> store[k].timestamp,
         isPinned |-> store[k].isPinned, reactions |-> store[k].reactions,
         replyTo |-> store[k].replyTo]]

\* a mutation of MessagesSnapshot: the list is read once (a get where the
\* code has a subscription)
MessagesSnapshotOnce(c) ==
    /\ localMessages[c] = << >>
    /\ localMessages[c] # SnapshotList(messages)
    /\ localMessages' = [localMessages EXCEPT ![c] = SnapshotList(messages)]
    /\ UNCHANGED <<messages, activeReactMenuId, activeActionId,
                   skipNextClickRef, chatOutbox, reactionLog>>

\* the messages subscription callback
MessagesSnapshot(c) ==
    /\ localMessages[c] # SnapshotList(messages)
    /\ localMessages' = [localMessages EXCEPT ![c] = SnapshotList(messages)]
    /\ UNCHANGED <<messages, activeReactMenuId, activeActionId,
                   skipNextClickRef, chatOutbox, reactionLog>>

closeAllMenus(c) ==
    IF skipNextClickRef[c]
    THEN UNCHANGED <<activeActionId, activeReactMenuId>>
    ELSE /\ activeActionId' = [activeActionId EXCEPT ![c] = NoId]
         /\ activeReactMenuId' = [activeReactMenuId EXCEPT ![c] = NoId]

\* messages.find((m) => m.id === msgId): the indices of the cached message
FindMessage(c, msgId) ==
    {i \in 1..Len(localMessages[c]) : localMessages[c][i].id = msgId}

\* a mutation of ReactionWrite: the reaction is always set, never removed
ReactionWriteAlwaysSets(msg, user, emoji) ==
    [op |-> "update", id |-> msg.id, user |-> user, emoji |-> emoji]

\* the write toggleReaction issues for the cached message msg
ReactionWrite(msg, user, emoji) ==
    IF Lookup(msg.reactions, user) = emoji
    THEN [op |-> "remove", id |-> msg.id, user |-> user, emoji |-> Null]
    ELSE [op |-> "update", id |-> msg.id, user |-> user, emoji |-> emoji]

toggleReaction(c, msgId, emoji) ==
    /\ Len(chatOutbox[c]) < MaxPending
    /\ Len(reactionLog) < MaxReactions
    /\ IF FindMessage(c, msgId) = {}
       THEN UNCHANGED <<chatOutbox, reactionLog, activeActionId,
                        activeReactMenuId>>
       ELSE LET msg == localMessages[c][CHOOSE i \in FindMessage(c, msgId) : TRUE]
                w == ReactionWrite(msg, currentUser[c], emoji)
            IN /\ chatOutbox' = [chatOutbox EXCEPT ![c] = Append(@, w)]
               /\ reactionLog' = Append(reactionLog,
                      [client |-> c, id |-> msgId, emoji |-> emoji,
                       seen |-> Lookup(msg.reactions, currentUser[c])])
               /\ closeAllMenus(c)
    /\ UNCHANGED <<messages, localMessages, skipNextClickRef>>

\* an emoji button of the open reaction picker of a rendered message
EmojiClick(c, msgId, emoji) ==
    /\ activeReactMenuId[c] = msgId
    /\ FindMessage(c, msgId) # {}
    /\ toggleReaction(c, msgId, emoji)

\* the React button of a rendered message's action bar
ReactButton(c, msgId) ==
    /\ FindMessage(c, msgId) # {}
    /\ activeReactMenuId[c] # msgId
    /\ activeReactMenuId' = [activeReactMenuId EXCEPT ![c] = msgId]
    /\ activeActionId' = [activeActionId EXCEPT ![c] = NoId]
    /\ UNCHANGED <<messages, localMessages, skipNextClickRef, chatOutbox,
                   reactionLog>>

\* a click on the backdrop shown while a menu is open
BackdropClick(c) ==
    /\ activeActionId[c] # NoId \/ activeReactMenuId[c] # NoId
    /\ closeAllMenus(c)
    /\ UNCHANGED <<messages, localMessages, skipNextClickRef, chatOutbox,
                   reactionLog>>

\* a mutation of ApplyChatWrite: a remove leaves the reaction in place
ApplyChatWriteIgnoresRemove(store, w) ==
    IF w.op = "push" THEN Append(store, w.payload)
    ELSE IF w.id \notin DOMAIN store \/ w.op = "remove" THEN store
    ELSE IF w.op = "pin" THEN [store EXCEPT ![w.id].isPinned = w.value]
    ELSE [store EXCEPT ![w.id].reactions = PutKey(@, w.user, w.emoji)]

\* a mutation of ApplyChatWrite: the pin write replaces the message (a set
\* where the code has an update)
ApplyChatWritePinReplaces(store, w) ==
    IF w.op = "push" THEN Append(store, w.payload)
    ELSE IF w.id \notin DOMAIN store THEN store
    ELSE IF w.op = "pin"
    THEN [store EXCEPT ![w.id] =
             [sender |-> "", text |-> "", timestamp |-> 0,
              isPinned |-> w.value, reactions |-> EmptyMap,
              replyTo |-> NoReplyTo]]
    ELSE IF w.op = "remove"
    THEN [store EXCEPT ![w.id].reactions = RemoveKey(@, w.user)]
    ELSE [store EXCEPT ![w.id].reactions = PutKey(@, w.user, w.emoji)]

\* a mutation of ApplyChatWrite: the pin write also drops the reactions
ApplyChatWritePinClearsReactions(store, w) ==
    IF w.op = "push" THEN Append(store, w.payload)
    ELSE IF w.id \notin DOMAIN store THEN store
    ELSE IF w.op = "pin"
    THEN [store EXCEPT ![w.id].isPinned = w.value,
                       ![w.id].reactions = EmptyMap]
    ELSE IF w.op = "remove"
    THEN [store EXCEPT ![w.id].reactions = RemoveKey(@, w.user)]
    ELSE [store EXCEPT ![w.id].reactions = PutKey(@, w.user, w.emoji)]

\* a mutation of ApplyChatWrite: the reaction write replaces the reactions
\* of the message (a set where the code has an update)
ApplyChatWriteReactionReplaces(store, w) ==
    IF w.op = "push" THEN Append(store, w.payload)
    ELSE IF w.id \notin DOMAIN store THEN store
    ELSE IF w.op = "pin" THEN [store EXCEPT ![w.id].isPinned = w.value]
    ELSE IF w.op = "remove"
    THEN [store EXCEPT ![w.id].reactions = RemoveKey(@, w.user)]
    ELSE [store EXCEPT ![w.id].reactions = PutKey(EmptyMap, w.user, w.emoji)]

\* the store after push(messages, payload), update(messages/{id},
\* {isPinned}), remove(messages/{id}/reactions/{user}) or
\* update(messages/{id}/reactions, {[user]: emoji}); the key of a pushed
\* message is the next one in store-key order
ApplyChatWrite(store, w) ==
    IF w.op = "push" THEN Append(store, w.payload)
    ELSE IF w.id \notin DOMAIN store THEN store
    ELSE IF w.op = "pin" THEN [store EXCEPT ![w.id].isPinned = w.value]
    ELSE IF w.op = "remove"
    THEN [store EXCEPT ![w.id].reactions = RemoveKey(@, w.user)]
    ELSE [store EXCEPT ![w.id].reactions = PutKey(@, w.user, w.emoji)]

\* the store applies the oldest pending chat write of client c
ChatStoreApply(c) ==
    /\ chatOutbox[c] # << >>
    /\ messages' = ApplyChatWrite(messages, Head(chatOutbox[c]))
    /\ chatOutbox' = [chatOutbox EXCEPT ![c] = Tail(@)]
    /\ UNCHANGED <<localMessages, activeReactMenuId, activeActionId,
                   skipNextClickRef, reactionLog>>

\* the input's onChange: setNewMessage(e.target.value)
setNewMessage(c, value) ==
    /\ value # newMessage[c]
    /\ Len(value) <= MAX_CHARS
    /\ newMessage' = [newMessage EXCEPT ![c] = value]
    /\ UNCHANGED <<replyingTo, shouldAutoScroll, sendLog>>

\* the Reply button of a rendered message: setReplyingTo(msg); closeAllMenus()
ReplyButton(c, msgId) ==
    /\ FindMessage(c, msgId) # {}
    /\ replyingTo' = [replyingTo EXCEPT ![c] =
           localMessages[c][CHOOSE i \in FindMessage(c, msgId) : TRUE]]
    /\ closeAllMenus(c)
    /\ UNCHANGED <<newMessage, shouldAutoScroll, sendLog>>
    /\ UNCHANGED <<messages, localMessages, skipNextClickRef, chatOutbox,
                   reactionLog>>

\* the x button of the reply preview: setReplyingTo(null)
CancelReply(c) ==
    /\ replyingTo[c].id # NoId
    /\ replyingTo' = [replyingTo EXCEPT ![c] = NoMessage]
    /\ UNCHANGED <<newMessage, shouldAutoScroll, sendLog>>

\* handleScroll: setShouldAutoScroll(isNearBottom)
handleScroll(c, isNearBottom) ==
    /\ shouldAutoScroll[c] # isNearBottom
    /\ shouldAutoScroll' = [shouldAutoScroll EXCEPT ![c] = isNearBottom]
    /\ UNCHANGED <<newMessage, replyingTo, sendLog>>

\* a mutation of ReplySnapshot: the text is copied whole
ReplySnapshotUntruncated(target) ==
    [id |-> target.id, sender |-> target.sender, text |-> target.text]

\* payload.replyTo: text.substring(0, 120) + (text.length > 120 ? "..." : "")
ReplySnapshot(target) ==
    [id |-> target.id, sender |-> target.sender,
     text |-> SubSeq(target.text, 1, IF Len(target.text) < ReplyMax
                                     THEN Len(target.text) ELSE ReplyMax)
              \o (IF Len(target.text) > ReplyMax THEN "..." ELSE "")]

\* a mutation of Payload: the text is stored trimmed
PayloadTrimmed(c, ts) ==
    [sender |-> currentUser[c], text |-> Trim(newMessage[c]), timestamp |-> ts,
     isPinned |-> Null, reactions |-> EmptyMap,
     replyTo |-> IF replyingTo[c].id # NoId THEN ReplySnapshot(replyingTo[c])
                 ELSE NoReplyTo]

\* a mutation of Payload: the sender is the author of the message replied to
PayloadSenderOfReply(c, ts) ==
    [sender |-> replyingTo[c].sender, text |-> newMessage[c], timestamp |-> ts,
     isPinned |-> Null, reactions |-> EmptyMap,
     replyTo |-> IF replyingTo[c].id # NoId THEN ReplySnapshot(replyingTo[c])
                 ELSE NoReplyTo]

\* the payload sendMessage pushes; it has no isPinned and no reactions
Payload(c, ts) ==
    [sender |-> currentUser[c], text |-> newMessage[c], timestamp |-> ts,
     isPinned |-> Null, reactions |-> EmptyMap,
     replyTo |-> IF replyingTo[c].id # NoId THEN ReplySnapshot(replyingTo[c])
                 ELSE NoReplyTo]

\* a mutation of Rejected: only the empty draft is rejected
RejectedOnlyEmpty(text) == text = ""

\* !newMessage.trim()
Rejected(text) == Trim(text) = ""

\* the form's onSubmit
sendMessage(c) ==
    /\ Len(sendLog) < MaxSends
    /\ Len(chatOutbox[c]) < MaxPending
    /\ sendLog' = Append(sendLog,
           [client |-> c, text |-> newMessage[c],
            pushed |-> ~Rejected(newMessage[c])])
    /\ IF Rejected(newMessage[c])
       THEN UNCHANGED <<chatOutbox, newMessage, replyingTo, shouldAutoScroll,
                        activeActionId, activeReactMenuId>>
       ELSE /\ \E ts \in Times :
                  chatOutbox' = [chatOutbox EXCEPT ![c] =
                      Append(@, [op |-> "push", payload |-> Payload(c, ts)])]
            /\ newMessage' = [newMessage EXCEPT ![c] = ""]
            /\ replyingTo' = [replyingTo EXCEPT ![c] = NoMessage]
            /\ shouldAutoScroll' = [shouldAutoScroll EXCEPT ![c] = TRUE]
            /\ closeAllMenus(c)
    /\ UNCHANGED <<messages, localMessages, skipNextClickRef, reactionLog>>

\* !msg.isPinned: an absent isPinned is falsy
JsNot(v) == IF v = JsTrue THEN JsFalse ELSE JsTrue

\* a mutation of PinWrite: the value the caller sees is written back
PinWriteKeeps(msg) ==
    [op |-> "pin", id |-> msg.id,
     value |-> IF msg.isPinned = JsTrue THEN JsTrue ELSE JsFalse]

\* a mutation of PinWrite: the value is computed from the store's message
PinWriteFromStore(msg) ==
    [op |-> "pin", id |-> msg.id, value |-> JsNot(messages[msg.id].isPinned)]

\* the write togglePin issues for the rendered message msg
PinWrite(msg) == [op |-> "pin", id |-> msg.id, value |-> JsNot(msg.isPinned)]

\* the Pin button of a rendered message
togglePin(c, msgId) ==
    /\ FindMessage(c, msgId) # {}
    /\ Len(chatOutbox[c]) < MaxPending
    /\ Len(pinLog) < MaxPins
    /\ LET msg == localMessages[c][CHOOSE i \in FindMessage(c, msgId) : TRUE]
       IN /\ chatOutbox' = [chatOutbox EXCEPT ![c] = Append(@, PinWrite(msg))]
          /\ pinLog' = Append(pinLog,
                 [client |-> c, id |-> msgId, seen |-> msg.isPinned])
    /\ closeAllMenus(c)
    /\ UNCHANGED <<messages, localMessages, skipNextClickRef, reactionLog>>

\* a log of NumMessages messages sent in earlier sessions, nobody has
\* reacted yet, no snapshot delivered yet
ChatInit ==
    /\ SignedIn
    /\ AvailIdle
    /\ HelpersIdle
    /\ messages = [k \in 1..NumMessages |->
                     [sender |-> IF k = 1 THEN "Ryan" ELSE "Drex", text |-> "hi",
                      timestamp |-> k,
                      isPinned |-> Null, reactions |-> EmptyMap,
                      replyTo |-> NoReplyTo]]
    /\ localMessages = [c \in Clients |-> << >>]
    /\ activeReactMenuId = [c \in Clients |-> NoId]
    /\ activeActionId = [c \in Clients |-> NoId]
    /\ skipNextClickRef = [c \in Clients |-> FALSE]
    /\ chatOutbox = [c \in Clients |-> << >>]
    /\ reactionLog = << >>
    /\ ComposeIdle
    /\ PressIdle

\* the chat as the user drives it
ChatNext ==
    /\ UNCHANGED <<profileVars, availVars, composeVars, pinLog, pressVars, calVars, pureVars, viewVars, photoVars>>
    /\ \E c \in Clients :
        \/ MessagesSnapshot(c)
        \/ \E msgId \in 1..NumMessages : ReactButton(c, msgId)
        \/ \E msgId \in 1..NumMessages : \E emoji \in EMOJIS :
               EmojiClick(c, msgId, emoji)
        \/ BackdropClick(c)
        \/ ChatStoreApply(c)

SpecChat == ChatInit /\ [][ChatNext]_vars

\* toggleReaction called with any message id and emoji, as a caller of the
\* function can, also for an id the client has no cached message for
ChatCallNext ==
    /\ UNCHANGED <<profileVars, availVars, composeVars, pinLog, pressVars, calVars, pureVars, viewVars, photoVars>>
    /\ \E c \in Clients :
        \/ MessagesSnapshot(c)
        \/ \E msgId \in 1..NumMessages : ReactButton(c, msgId)
        \/ \E msgId \in 1..NumMessages : \E emoji \in EMOJIS :
               toggleReaction(c, msgId, emoji)
        \/ ChatStoreApply(c)

SpecChatCall == ChatInit /\ [][ChatCallNext]_vars

----------------------------------------------------------------------------
(* Long press on a message: pointers, the long-press timeout and the        *)
(* timeout that resets skipNextClickRef. Time advances in steps of TickMs.  *)

Min(a, b) == IF a < b THEN a ELSE b

\* the delay a timeout was set with
Delay(t) == IF t.kind = "press" THEN LONG_PRESS_MS ELSE SkipResetMs

\* a timeout whose delay has elapsed
Due(t) == t.elapsed >= Delay(t)

\* window.setTimeout returns an id no pending timeout has and the ref does
\* not hold
NewTimerId(ts, ref) ==
    CHOOSE n \in 1..(Cardinality(ts) + 2) :
        n # ref /\ \A t \in ts : t.id # n

\* a mutation of ClearedTimers: clearTimeout is never called
ClearedTimersNone(c) == timers[c]

\* clearLongPressTimer: the pending timeouts without the one the ref holds
ClearedTimers(c) == {t \in timers[c] : t.id # longPressTimeoutRef[c]}

\* what a press can land on: a rendered message when no menu is open, and
\* under the backdrop of an open menu only the message whose action bar or
\* reaction picker is open, these being drawn above the backdrop
CanPress(c, msgId) ==
    /\ FindMessage(c, msgId) # {}
    /\ \/ activeActionId[c] = NoId /\ activeReactMenuId[c] = NoId
       \/ activeActionId[c] = msgId
       \/ activeReactMenuId[c] = msgId

\* what a press on message msgId lands on: the message's bubble, or its
\* action bar or reaction picker when the backdrop of an open menu covers
\* the bubble
PressedPart(c, msgId) ==
    IF activeActionId[c] = NoId /\ activeReactMenuId[c] = NoId
    THEN "body" ELSE "menu"

handlePointerDownOnMessage(c, p, msgId) ==
    /\ pointers[c][p].msgId = NoId
    /\ CanPress(c, msgId)
    /\ pointers' = [pointers EXCEPT ![c][p] =
           [msgId |-> msgId, held |-> 0, on |-> PressedPart(c, msgId)]]
    /\ UNCHANGED releaseClick
    /\ IF PointerType(p) = "mouse"
       THEN UNCHANGED <<timers, longPressTimeoutRef>>
       ELSE LET id == NewTimerId(ClearedTimers(c), longPressTimeoutRef[c])
            IN /\ timers' = [timers EXCEPT ![c] = ClearedTimers(c) \cup
                      {[id |-> id, kind |-> "press", msgId |-> msgId,
                        pointer |-> p, elapsed |-> 0]}]
               /\ longPressTimeoutRef' = [longPressTimeoutRef EXCEPT ![c] = id]
    /\ UNCHANGED <<activeActionId, activeReactMenuId, skipNextClickRef>>

\* pointer p leaves the message it was on; each of the handlers of
\* pointer-up, leave and cancel calls clearLongPressTimer
EndPress(c, p) ==
    /\ pointers' = [pointers EXCEPT ![c][p] = NotPressing]
    /\ timers' = [timers EXCEPT ![c] = ClearedTimers(c)]
    /\ longPressTimeoutRef' = [longPressTimeoutRef EXCEPT ![c] = NoTimer]
    /\ UNCHANGED <<activeActionId, activeReactMenuId, skipNextClickRef>>

\* the pointer goes up where it went down, so a click event follows
handlePointerUpOnMessage(c, p) ==
    /\ pointers[c][p].msgId # NoId
    /\ EndPress(c, p)
    /\ releaseClick' = [releaseClick EXCEPT ![c] =
           [pointer |-> p, msgId |-> pointers[c][p].msgId,
            held |-> pointers[c][p].held, on |-> pointers[c][p].on]]

\* onPointerLeave and onPointerCancel; a mouse leaves a message it hovered
\* over with no button pressed too
handlePointerLeaveOnMessage(c, p) ==
    /\ pointers[c][p].msgId # NoId \/ PointerType(p) = "mouse"
    /\ EndPress(c, p)
    /\ UNCHANGED releaseClick

\* TickMs pass: no timeout is due, and the pending timeouts and the presses
\* age
Tick(c) ==
    /\ \A t \in timers[c] : ~Due(t)
    /\ \/ timers[c] # {}
       \/ \E p \in Pointers : /\ pointers[c][p].msgId # NoId
                               /\ pointers[c][p].held < LONG_PRESS_MS
    /\ timers' = [timers EXCEPT ![c] =
           {[t EXCEPT !.elapsed = Min(@ + TickMs, LONG_PRESS_MS)] : t \in @}]
    /\ pointers' = [pointers EXCEPT ![c] =
           [p \in Pointers |->
               IF @[p].msgId = NoId THEN @[p]
               ELSE [@[p] EXCEPT !.held = Min(@ + TickMs, LONG_PRESS_MS)]]]
    /\ UNCHANGED <<longPressTimeoutRef, activeActionId, activeReactMenuId,
                   skipNextClickRef, releaseClick>>

\* the due timeout that runs next: the one that has been due the longest
RunsNext(c, t) ==
    /\ t \in timers[c]
    /\ Due(t)
    /\ \A u \in timers[c] : u.elapsed - Delay(u) <= t.elapsed - Delay(t)

\* the long-press timeout runs
LongPressFire(c, t) ==
    /\ RunsNext(c, t)
    /\ t.kind = "press"
    /\ activeActionId' = [activeActionId EXCEPT ![c] = t.msgId]
    /\ skipNextClickRef' = [skipNextClickRef EXCEPT ![c] = TRUE]
    /\ LET rest == timers[c] \ {t}
       IN timers' = [timers EXCEPT ![c] = rest \cup
              {[id |-> NewTimerId(rest, longPressTimeoutRef[c]),
                kind |-> "reset", msgId |-> NoId, pointer |-> t.pointer,
                elapsed |-> 0]}]
    /\ UNCHANGED <<longPressTimeoutRef, pointers, activeReactMenuId,
                   releaseClick>>

\* the timeout set by the long-press timeout runs
SkipResetFire(c, t) ==
    /\ RunsNext(c, t)
    /\ t.kind = "reset"
    /\ skipNextClickRef' = [skipNextClickRef EXCEPT ![c] = FALSE]
    /\ timers' = [timers EXCEPT ![c] = @ \ {t}]
    /\ UNCHANGED <<longPressTimeoutRef, pointers, activeActionId,
                   activeReactMenuId, releaseClick>>

\* the click event that follows a pointer-up is dispatched to what lies at
\* that point now: the backdrop, when a menu is open and the press was on
\* the bubble the backdrop covers; a click on the bubble itself, or on the
\* gaps of the action bar and the picker, has no handler
ReleaseClick(c) ==
    /\ releaseClick[c] # NoClick
    /\ releaseClick' = [releaseClick EXCEPT ![c] = NoClick]
    /\ IF /\ releaseClick[c].on = "body"
          /\ activeActionId[c] # NoId \/ activeReactMenuId[c] # NoId
       THEN closeAllMenus(c)
       ELSE UNCHANGED <<activeActionId, activeReactMenuId>>
    /\ UNCHANGED <<longPressTimeoutRef, timers, pointers, skipNextClickRef>>

\* the frame of the press handlers and timeouts
PressFrame ==
    UNCHANGED <<messages, localMessages, chatOutbox, reactionLog,
                composeVars, pinLog>>

\* the frame of the menu buttons
MenuFrame == UNCHANGED <<composeVars, pinLog, pressVars>>

\* the chat of two signed-in users, nothing pressed and no menu open
MenusInit ==
    /\ ChatInit
    /\ currentUser["c1"] = "Ryan"
    /\ currentUser["c2"] = "Drex"

\* one client pressing, long-pressing and using the menus
MenusNext ==
    /\ UNCHANGED <<profileVars, availVars, calVars, pureVars, viewVars, photoVars>>
    /\ \E c \in Solo :
        \/ /\ releaseClick[c] = NoClick
           /\ \/ \E p \in Pointers : \E msgId \in 1..NumMessages :
                    handlePointerDownOnMessage(c, p, msgId) /\ PressFrame
              \/ \E p \in Pointers :
                    handlePointerUpOnMessage(c, p) /\ PressFrame
              \/ \E p \in Pointers :
                    handlePointerLeaveOnMessage(c, p) /\ PressFrame
              \/ Tick(c) /\ PressFrame
              \/ \E t \in timers[c] : LongPressFire(c, t) /\ PressFrame
              \/ \E t \in timers[c] : SkipResetFire(c, t) /\ PressFrame
              \/ \E msgId \in 1..NumMessages :
                    ReactButton(c, msgId) /\ MenuFrame
              \/ BackdropClick(c) /\ MenuFrame
              \/ MessagesSnapshot(c) /\ MenuFrame
        \* the click of a release is dispatched right after the pointer-up
        \/ ReleaseClick(c) /\ PressFrame

SpecMenus == MenusInit /\ [][MenusNext]_vars

\* the texts of the messages sent in earlier sessions: a short one, one of
\* exactly ReplyMax characters and one of one character more
TargetTexts == {"hi", Rep(ReplyMax), Rep(ReplyMax + 1)}

\* the ids a message can have in this session
MessageIds == 1..(NumMessages + MaxSends)

\* a log of NumMessages messages, the first with any of these texts, one
\* client composing
ComposeInit ==
    /\ SignedIn
    /\ AvailIdle
    /\ HelpersIdle
    /\ \E first \in TargetTexts :
          messages = [k \in 1..NumMessages |->
                        [sender |-> IF k = 1 THEN "Ryan" ELSE "Drex",
                         text |-> IF k = 1 THEN first ELSE "hi",
                         timestamp |-> k,
                         isPinned |-> Null, reactions |-> EmptyMap,
                         replyTo |-> NoReplyTo]]
    /\ localMessages = [c \in Clients |-> << >>]
    /\ activeReactMenuId = [c \in Clients |-> NoId]
    /\ activeActionId = [c \in Clients |-> NoId]
    /\ skipNextClickRef = [c \in Clients |-> FALSE]
    /\ chatOutbox = [c \in Clients |-> << >>]
    /\ reactionLog = << >>
    /\ ComposeIdle
    /\ PressIdle

\* one client composing, replying and sending
ComposeNext ==
    /\ UNCHANGED <<profileVars, availVars, pressVars, calVars, pinLog,
                   pureVars, viewVars, photoVars>>
    /\ \E c \in Solo :
        \/ \E value \in Drafts : setNewMessage(c, value) /\ UNCHANGED chatVars
        \/ \E msgId \in MessageIds : ReplyButton(c, msgId)
        \/ CancelReply(c) /\ UNCHANGED chatVars
        \/ \E b \in BOOLEAN : handleScroll(c, b) /\ UNCHANGED chatVars
        \/ sendMessage(c)
        \/ \E msgId \in MessageIds : ReactButton(c, msgId) /\ UNCHANGED composeVars
        \/ BackdropClick(c) /\ UNCHANGED composeVars
        \/ MessagesSnapshot(c) /\ UNCHANGED composeVars
        \/ ChatStoreApply(c) /\ UNCHANGED composeVars

SpecCompose == ComposeInit /\ [][ComposeNext]_vars

\* the store empty or holding the log of earlier sessions, whose first
\* message has a reaction; the two clients are signed in as different users
LogInit ==
    /\ SignedIn
    /\ currentUser["c1"] = "Ryan"
    /\ currentUser["c2"] = "Drex"
    /\ AvailIdle
    /\ HelpersIdle
    /\ messages \in
          {<< >>,
           [k \in 1..NumMessages |->
               [sender |-> IF k = 1 THEN "Ryan" ELSE "Drex", text |-> "hi",
                timestamp |-> k, isPinned |-> Null,
                reactions |-> IF k = 1 THEN PutKey(EmptyMap, "Drex", "heart")
                              ELSE EmptyMap,
                replyTo |-> NoReplyTo]]}
    /\ localMessages = [c \in Clients |-> << >>]
    /\ activeReactMenuId = [c \in Clients |-> NoId]
    /\ activeActionId = [c \in Clients |-> NoId]
    /\ skipNextClickRef = [c \in Clients |-> FALSE]
    /\ chatOutbox = [c \in Clients |-> << >>]
    /\ reactionLog = << >>
    /\ ComposeIdle
    /\ PressIdle

\* the send, reaction and pin calls made so far
Writes == Len(sendLog) + Len(reactionLog) + Len(pinLog)

\* one client replying and sending, every client reacting and pinning,
\* against one log
LogNext ==
    /\ UNCHANGED <<profileVars, availVars, pressVars, calVars, pureVars, viewVars, photoVars>>
    /\ \E c \in Clients :
        \/ /\ c \in Solo
           /\ setNewMessage(c, " yo")
           /\ UNCHANGED <<chatVars, pinLog>>
        \/ /\ c \in Solo
           /\ \E msgId \in MessageIds : ReplyButton(c, msgId)
           /\ UNCHANGED pinLog
        \/ /\ c \in Solo
           /\ Writes < MaxWrites
           /\ sendMessage(c)
           /\ UNCHANGED pinLog
        \/ /\ Writes < MaxWrites
           /\ \E msgId \in 1..NumMessages : \E emoji \in EMOJIS :
                  /\ FindMessage(c, msgId) # {}
                  /\ toggleReaction(c, msgId, emoji)
           /\ UNCHANGED <<composeVars, pinLog>>
        \/ /\ Writes < MaxWrites
           /\ \E msgId \in MessageIds : togglePin(c, msgId)
           /\ UNCHANGED composeVars
        \/ MessagesSnapshot(c) /\ UNCHANGED <<composeVars, pinLog>>
        \/ ChatStoreApply(c) /\ UNCHANGED <<composeVars, pinLog>>

SpecLog == LogInit /\ [][LogNext]_vars

----------------------------------------------------------------------------
(* The menu buttons during and after a long press *)

\* the buttons of an open action bar and of an open picker, and the form
MenuButtons(c) ==
    \/ \E msgId \in 1..NumMessages :
          /\ activeActionId[c] = msgId
          /\ ReplyButton(c, msgId)
          /\ UNCHANGED <<pinLog, pressVars>>
    \/ \E msgId \in 1..NumMessages :
          /\ activeActionId[c] = msgId
          /\ Writes < MaxWrites
          /\ togglePin(c, msgId)
          /\ UNCHANGED <<composeVars, pressVars>>
    \/ \E msgId \in 1..NumMessages : \E emoji \in EMOJIS :
          /\ Writes < MaxWrites
          /\ EmojiClick(c, msgId, emoji)
          /\ MenuFrame
    \/ /\ setNewMessage(c, " yo")
       /\ UNCHANGED <<chatVars, pinLog, pressVars>>
    \/ /\ Writes < MaxWrites
       /\ sendMessage(c)
       /\ UNCHANGED <<pinLog, pressVars>>

\* the pointer of the presses: one finger
ButtonPointers == {"touch1"}

\* one client long-pressing with one finger and using the buttons of the
\* menus while the timeouts of its presses are pending
ButtonsNext ==
    /\ UNCHANGED <<profileVars, availVars, calVars, pureVars, viewVars,
                   photoVars>>
    /\ \E c \in Solo :
        \/ /\ releaseClick[c] = NoClick
           /\ \/ \E p \in ButtonPointers : \E msgId \in 1..NumMessages :
                    handlePointerDownOnMessage(c, p, msgId) /\ PressFrame
              \/ \E p \in ButtonPointers :
                    handlePointerUpOnMessage(c, p) /\ PressFrame
              \/ Tick(c) /\ PressFrame
              \/ \E t \in timers[c] : LongPressFire(c, t) /\ PressFrame
              \/ \E t \in timers[c] : SkipResetFire(c, t) /\ PressFrame
              \/ \E msgId \in 1..NumMessages :
                    ReactButton(c, msgId) /\ MenuFrame
              \/ BackdropClick(c) /\ MenuFrame
              \/ MessagesSnapshot(c) /\ MenuFrame
              \/ MenuButtons(c)
        \/ ReleaseClick(c) /\ PressFrame

SpecButtons == MenusInit /\ [][ButtonsNext]_vars

----------------------------------------------------------------------------
(* The pinned view and the scroll position of the main list *)

\* the distances from the bottom the main list is seen at, in px: at the
\* bottom, just inside and just outside the near-bottom zone, far away
ScrollGaps == {0, NEAR_BOTTOM_PX - 1, NEAR_BOTTOM_PX, NEAR_BOTTOM_PX + 140}

\* messages.filter((m) => m.isPinned): true is the only truthy value stored
pinnedMessages(c) ==
    SelectSeq(localMessages[c], LAMBDA m : m.isPinned = JsTrue)

\* a mutation of ActionBarButtons: the same bar in both views
ActionBarButtonsEverywhere(isPinnedView) == {"reply", "react", "pin"}

\* the buttons of the action bar renderMessage renders
ActionBarButtons(isPinnedView) ==
    IF isPinnedView THEN {"pin"} ELSE {"reply", "react", "pin"}

\* the click backdrop is rendered: it lies over the header and the main
\* list, under the open bar and picker and under the pinned overlay
Backdrop(c) == activeActionId[c] # NoId \/ activeReactMenuId[c] # NoId

\* the message is rendered in that view and the view is the one on top
RenderedIn(c, isPinnedView, msgId) ==
    IF isPinnedView
    THEN /\ showPinnedView[c]
         /\ \E k \in 1..Len(pinnedMessages(c)) : pinnedMessages(c)[k].id = msgId
    ELSE /\ ~showPinnedView[c]
         /\ FindMessage(c, msgId) # {}

\* the action bar of the message takes clicks: it is open, or shown on
\* hover, which the backdrop prevents over the main list
ActionBarUsable(c, isPinnedView, msgId) ==
    /\ RenderedIn(c, isPinnedView, msgId)
    /\ isPinnedView \/ ~Backdrop(c) \/ activeActionId[c] = msgId

\* the smart-scroll effect, run after a render that changed messages,
\* shouldAutoScroll or showPinnedView; gap is where that render left the list
SmartScroll(c, gap) ==
    IF shouldAutoScroll'[c] /\ ~showPinnedView'[c]
    THEN /\ scrollGap' = [scrollGap EXCEPT ![c] = 0]
         /\ smartScroll' = [smartScroll EXCEPT ![c] = "scrolled"]
    ELSE /\ scrollGap' = [scrollGap EXCEPT ![c] = gap]
         /\ smartScroll' = [smartScroll EXCEPT ![c] = "skipped"]

\* a mutation of Resync: the effect does not look at the pinned view
ResyncScrollsUnderOverlay(c) ==
    /\ MessagesSnapshot(c)
    /\ UNCHANGED <<composeVars, pinLog, showPinnedView, lastControl>>
    /\ \E gap \in ScrollGaps :
          /\ gap >= scrollGap[c]
          /\ IF shouldAutoScroll[c]
             THEN /\ scrollGap' = [scrollGap EXCEPT ![c] = 0]
                  /\ smartScroll' = [smartScroll EXCEPT ![c] = "scrolled"]
             ELSE /\ scrollGap' = [scrollGap EXCEPT ![c] = gap]
                  /\ smartScroll' = [smartScroll EXCEPT ![c] = "skipped"]

\* a resync: the subscription callback sets messages, the list is rendered
\* (what arrived can only lengthen it) and the smart-scroll effect runs
Resync(c) ==
    /\ MessagesSnapshot(c)
    /\ UNCHANGED <<composeVars, pinLog, showPinnedView, lastControl>>
    /\ \E gap \in ScrollGaps :
          /\ gap >= scrollGap[c]
          /\ SmartScroll(c, gap)

\* the header's pin button, rendered while a message is pinned; the
\* backdrop lies over it while a menu is open
OpenPinnedView(c) ==
    /\ ~showPinnedView[c]
    /\ Len(pinnedMessages(c)) > 0
    /\ ~Backdrop(c)
    /\ showPinnedView' = [showPinnedView EXCEPT ![c] = TRUE]
    /\ UNCHANGED <<chatVars, composeVars, pinLog, lastControl>>
    /\ SmartScroll(c, scrollGap[c])

\* the overlay's Close button: setShowPinnedView(false); closeAllMenus()
ClosePinnedView(c) ==
    /\ showPinnedView[c]
    /\ showPinnedView' = [showPinnedView EXCEPT ![c] = FALSE]
    /\ closeAllMenus(c)
    /\ UNCHANGED <<messages, localMessages, skipNextClickRef, chatOutbox,
                   reactionLog, composeVars, pinLog, lastControl>>
    /\ SmartScroll(c, scrollGap[c])

\* a click on a button of a rendered message's action bar
ActionBarClick(c, isPinnedView, msgId, button) ==
    /\ button \in ActionBarButtons(isPinnedView)
    /\ ActionBarUsable(c, isPinnedView, msgId)
    /\ CASE button = "reply" -> ReplyButton(c, msgId) /\ UNCHANGED pinLog
         [] button = "react" ->
                ReactButton(c, msgId) /\ UNCHANGED <<composeVars, pinLog>>
         [] button = "pin" -> togglePin(c, msgId) /\ UNCHANGED composeVars
    /\ lastControl' = [lastControl EXCEPT ![c] =
           [isPinnedView |-> isPinnedView, effect |-> button]]
    /\ UNCHANGED <<showPinnedView, scrollGap, smartScroll>>

\* a click on an emoji of the picker rendered under a message
PickerClick(c, isPinnedView, msgId, emoji) ==
    /\ RenderedIn(c, isPinnedView, msgId)
    /\ EmojiClick(c, msgId, emoji)
    /\ lastControl' = [lastControl EXCEPT ![c] =
           [isPinnedView |-> isPinnedView, effect |-> "reaction"]]
    /\ UNCHANGED <<composeVars, pinLog, showPinnedView, scrollGap,
                   smartScroll>>

\* a click on the backdrop, which the pinned overlay covers
BackdropClickUnderHeader(c) ==
    /\ ~showPinnedView[c]
    /\ BackdropClick(c)
    /\ UNCHANGED <<composeVars, pinLog, viewVars>>

\* the values an isPinned field has in the log of earlier sessions: absent
\* or true (false is what an unpin of this session writes)
PinStates == {Null, JsTrue}

\* a log of messages of earlier sessions, pinned or not, two users signed in
PinnedInit ==
    /\ SignedIn
    /\ currentUser["c1"] = "Ryan"
    /\ currentUser["c2"] = "Drex"
    /\ AvailIdle
    /\ HelpersIdle
    /\ \E pinned \in [1..(NumMessages + 1) -> PinStates] :
          messages = [k \in 1..(NumMessages + 1) |->
                        [sender |-> IF k = 1 THEN "Ryan" ELSE "Drex",
                         text |-> "hi", timestamp |-> k,
                         isPinned |-> pinned[k], reactions |-> EmptyMap,
                         replyTo |-> NoReplyTo]]
    /\ localMessages = [c \in Clients |-> << >>]
    /\ activeReactMenuId = [c \in Clients |-> NoId]
    /\ activeActionId = [c \in Clients |-> NoId]
    /\ skipNextClickRef = [c \in Clients |-> FALSE]
    /\ chatOutbox = [c \in Clients |-> << >>]
    /\ reactionLog = << >>
    /\ ComposeIdle
    /\ PressIdle

\* one client using the message controls of the main list and of the
\* pinned view
PinnedNext ==
    /\ UNCHANGED <<profileVars, availVars, pressVars, calVars, pureVars,
                   photoVars>>
    /\ \E c \in Solo :
        \/ Resync(c)
        \/ ChatStoreApply(c) /\ UNCHANGED <<composeVars, pinLog, viewVars>>
        \/ OpenPinnedView(c)
        \/ ClosePinnedView(c)
        \/ \E isPinnedView \in BOOLEAN : \E msgId \in 1..(NumMessages + 1) :
              \E button \in {"reply", "react", "pin"} :
                  /\ Writes < MaxWrites
                  /\ ActionBarClick(c, isPinnedView, msgId, button)
        \/ \E isPinnedView \in BOOLEAN : \E msgId \in 1..(NumMessages + 1) :
              \E emoji \in EMOJIS :
                  /\ Writes < MaxWrites
                  /\ PickerClick(c, isPinnedView, msgId, emoji)
        \/ BackdropClickUnderHeader(c)

SpecPinned == PinnedInit /\ [][PinnedNext]_vars

\* a scroll event of the main list, the user's or the smooth scroll's own:
\* handleScroll, and the smart-scroll effect when shouldAutoScroll changed
ScrollEvent(c, gap) ==
    /\ gap # scrollGap[c]
    /\ UNCHANGED <<chatVars, pinLog, showPinnedView, lastControl>>
    /\ IF shouldAutoScroll[c] # (gap < NEAR_BOTTOM_PX)
       THEN /\ handleScroll(c, gap < NEAR_BOTTOM_PX)
            /\ SmartScroll(c, gap)
       ELSE /\ UNCHANGED composeVars
            /\ scrollGap' = [scrollGap EXCEPT ![c] = gap]
            /\ UNCHANGED smartScroll

\* the form is submitted (the pinned overlay covers it): sendMessage, and
\* the smart-scroll effect when shouldAutoScroll changed
SubmitForm(c) ==
    /\ ~showPinnedView[c]
    /\ sendMessage(c)
    /\ UNCHANGED <<pinLog, showPinnedView, lastControl>>
    /\ IF shouldAutoScroll'[c] # shouldAutoScroll[c]
       THEN SmartScroll(c, scrollGap[c])
       ELSE UNCHANGED <<scrollGap, smartScroll>>

\* a log of earlier sessions whose first message is pinned, two users
\* signed in, the main list mounted at the bottom
ScrollInit ==
    /\ SignedIn
    /\ currentUser["c1"] = "Ryan"
    /\ currentUser["c2"] = "Drex"
    /\ AvailIdle
    /\ HelpersIdle
    /\ messages = [k \in 1..NumMessages |->
                     [sender |-> IF k = 1 THEN "Ryan" ELSE "Drex",
                      text |-> "hi", timestamp |-> k,
                      isPinned |-> IF k = 1 THEN JsTrue ELSE Null,
                      reactions |-> EmptyMap, replyTo |-> NoReplyTo]]
    /\ localMessages = [c \in Clients |-> << >>]
    /\ activeReactMenuId = [c \in Clients |-> NoId]
    /\ activeActionId = [c \in Clients |-> NoId]
    /\ skipNextClickRef = [c \in Clients |-> FALSE]
    /\ chatOutbox = [c \in Clients |-> << >>]
    /\ reactionLog = << >>
    /\ ComposeIdle
    /\ PressIdle

\* the clients typing and sending; one of them scrolling the main list and
\* opening and closing the pinned view
ScrollNext ==
    /\ UNCHANGED <<profileVars, availVars, pressVars, calVars, pureVars,
                   photoVars>>
    /\ \E c \in Clients :
        \/ /\ ~showPinnedView[c]
           /\ \E value \in Drafts : setNewMessage(c, value)
           /\ UNCHANGED <<chatVars, pinLog, viewVars>>
        \/ SubmitForm(c)
        \/ /\ c \in Solo
           /\ \E gap \in ScrollGaps : ScrollEvent(c, gap)
        \/ /\ c \in Solo
           /\ OpenPinnedView(c)
        \/ /\ c \in Solo
           /\ ClosePinnedView(c)
        \/ /\ c \in Solo
           /\ Resync(c)
        \/ ChatStoreApply(c) /\ UNCHANGED <<composeVars, pinLog, viewVars>>

SpecScroll == ScrollInit /\ [][ScrollNext]_vars

----------------------------------------------------------------------------
(* AvailabilityHeatmap *)

\* the availability subscription callback
AvailabilitySnapshot(c) ==
    /\ localAvailability[c] # availability
    /\ localAvailability' = [localAvailability EXCEPT ![c] = availability]
    /\ UNCHANGED <<availability, availOutbox, availLog>>

\* a mutation of AvailabilityWrite: un-marking stores false instead of
\* deleting the key
AvailabilityWriteFalse(day, date, user) ==
    IF day[user] = JsTrue
    THEN [op |-> "update", date |-> date, user |-> user, value |-> JsFalse]
    ELSE [op |-> "update", date |-> date, user |-> user, value |-> JsTrue]

\* a mutation of AvailabilityWrite: the cache is not consulted
AvailabilityWriteAlwaysSets(day, date, user) ==
    [op |-> "update", date |-> date, user |-> user, value |-> JsTrue]

\* the write toggleAvailability issues; day is the cached map of the date
\* and isFree = dayData[currentUser] is truthy only for the value true
AvailabilityWrite(day, date, user) ==
    IF day[user] = JsTrue
    THEN [op |-> "remove", date |-> date, user |-> user, value |-> Absent]
    ELSE [op |-> "update", date |-> date, user |-> user, value |-> JsTrue]

\* a mutation of toggleAvailability: the cached map is updated with the write
toggleAvailabilityOptimistic(c, date) ==
    /\ Len(availOutbox[c]) < MaxPending
    /\ Len(availLog) < MaxToggles
    /\ LET w == AvailabilityWrite(localAvailability[c][date], date,
                                  currentUser[c])
       IN /\ availOutbox' = [availOutbox EXCEPT ![c] = Append(@, w)]
          /\ availLog' = Append(availLog,
                 [client |-> c, date |-> date,
                  seen |-> localAvailability[c][date][currentUser[c]]])
          /\ localAvailability' = [localAvailability EXCEPT ![c] =
                 [@ EXCEPT ![date][currentUser[c]] = w.value]]
    /\ UNCHANGED availability

toggleAvailability(c, date) ==
    /\ Len(availOutbox[c]) < MaxPending
    /\ Len(availLog) < MaxToggles
    /\ LET w == AvailabilityWrite(localAvailability[c][date], date,
                                  currentUser[c])
       IN /\ availOutbox' = [availOutbox EXCEPT ![c] = Append(@, w)]
          /\ availLog' = Append(availLog,
                 [client |-> c, date |-> date,
                  seen |-> localAvailability[c][date][currentUser[c]]])
    /\ UNCHANGED <<availability, localAvailability>>

\* a mutation of ApplyAvailabilityWrite: an update replaces the date's map
ApplyAvailabilityWriteWholeDay(store, w) ==
    IF w.op = "remove"
    THEN [store EXCEPT ![w.date][w.user] = Absent]
    ELSE [store EXCEPT ![w.date] =
              [u \in FRIEND_GROUP |-> IF u = w.user THEN w.value ELSE Absent]]

\* the store after remove(availability/{date}/{user}) or
\* update(root, {availability/{date}/{user}: true})
ApplyAvailabilityWrite(store, w) ==
    IF w.op = "remove"
    THEN [store EXCEPT ![w.date][w.user] = Absent]
    ELSE [store EXCEPT ![w.date][w.user] = w.value]

\* the store applies the oldest pending calendar write of client c
AvailStoreApply(c) ==
    /\ availOutbox[c] # << >>
    /\ availability' = ApplyAvailabilityWrite(availability, Head(availOutbox[c]))
    /\ availOutbox' = [availOutbox EXCEPT ![c] = Tail(@)]
    /\ UNCHANGED <<localAvailability, availLog>>

AvailInit == SignedIn /\ ChatIdle /\ AvailIdle /\ HelpersIdle

AvailNext ==
    /\ UNCHANGED <<profileVars, chatVars, composeVars, pinLog, pressVars,
                   calVars, pureVars, viewVars, photoVars>>
    /\ \E c \in Clients :
        \/ AvailabilitySnapshot(c)
        \/ \E date \in Dates : toggleAvailability(c, date)
        \/ AvailStoreApply(c)

SpecAvail == AvailInit /\ [][AvailNext]_vars

----------------------------------------------------------------------------
(* The intensity of a date cell *)

\* the classes getIntensityClass returns, lightest first
IntensityClasses ==
    <<"bg-skin-base", "bg-emerald-200", "bg-emerald-400", "bg-emerald-600",
      "bg-emerald-900">>

\* count / totalUsers <= num / den. The code divides in double precision
\* and compares with 0.25, 0.50 and 0.75, which are doubles; the quotient of
\* two small integers is rounded to the nearest double, which is on the
\* same side of such a bound as the exact quotient.
AtMost(count, totalUsers, num, den) == count * den <= num * totalUsers

\* a mutation of getIntensityClass: the upper bounds are exclusive
getIntensityClassExclusive(count, totalUsers) ==
    IF count = 0 THEN IntensityClasses[1]
    ELSE IF count * 4 < totalUsers THEN IntensityClasses[2]
    ELSE IF count * 2 < totalUsers THEN IntensityClasses[3]
    ELSE IF count * 4 < 3 * totalUsers THEN IntensityClasses[4]
    ELSE IntensityClasses[5]

getIntensityClass(count, totalUsers) ==
    IF count = 0 THEN IntensityClasses[1]
    ELSE IF AtMost(count, totalUsers, 1, 4) THEN IntensityClasses[2]
    ELSE IF AtMost(count, totalUsers, 1, 2) THEN IntensityClasses[3]
    ELSE IF AtMost(count, totalUsers, 3, 4) THEN IntensityClasses[4]
    ELSE IntensityClasses[5]

\* the rosters and attendance counts a date cell is rendered for
IntensityArgs ==
    {[count |-> n, totalUsers |-> t] : n \in 0..MaxTotal, t \in 1..MaxTotal}

\* a signed-in client about to render a date cell
IntensityInit ==
    /\ SignedIn
    /\ currentUser["c1"] = "Ryan"
    /\ currentUser["c2"] = "Drex"
    /\ ChatIdle
    /\ AvailIdle
    /\ args \in {a \in IntensityArgs : a.count <= a.totalUsers}
    /\ result = NotCalled

\* the date cell is rendered: getIntensityClass(count)
RenderDateCell ==
    /\ ~result.done
    /\ result' = Returned(getIntensityClass(args.count, args.totalUsers))
    /\ UNCHANGED args

IntensityNext ==
    /\ RenderDateCell
    /\ UNCHANGED <<profileVars, chatVars, composeVars, pinLog, pressVars,
                   availVars, calVars, viewVars, photoVars>>

SpecIntensity == IntensityInit /\ [][IntensityNext]_vars

----------------------------------------------------------------------------
(* The main message list: grouping of consecutive messages by sender and   *)
(* what renderMessage derives from it.                                     *)

\* the lists the main list is rendered for: messages in snapshot order
GroupingArgs ==
    UNION {[1..n -> FRIEND_GROUP] : n \in 0..MaxList}

\* the message list of a list of senders
MessagesOf(senders) ==
    [k \in 1..Len(senders) |-> [id |-> k, sender |-> senders[k]]]

\* renderMessage(msg, opts): the values derived from opts and the message
renderMessage(c, msg, opts) ==
    LET isPinnedView == opts.isPinnedView
        isLastInGroup == opts.isLastInGroup
        isMe == msg.sender = currentUser[c]
    IN  [id |-> msg.id,
         isFirstInGroup |-> opts.isFirstInGroup,
         isLastInGroup |-> isLastInGroup,
         showAvatar |-> ~isMe /\ (isPinnedView \/ isLastInGroup),
         showTimestamp |-> isPinnedView \/ isLastInGroup]

\* a mutation of RenderMainList: the group ends where it starts
RenderMainListByPrev(c, msgs) ==
    [index \in 1..Len(msgs) |->
        LET isPrevSameSender ==
                /\ index - 1 >= 1
                /\ msgs[index - 1].sender = msgs[index].sender
        IN  renderMessage(c, msgs[index],
                [isPinnedView |-> FALSE,
                 isFirstInGroup |-> ~isPrevSameSender,
                 isLastInGroup |-> ~isPrevSameSender])]

\* messages.map((msg, index) => ...): messages[index - 1] and
\* messages[index + 1] are undefined outside the array
RenderMainList(c, msgs) ==
    [index \in 1..Len(msgs) |->
        LET isPrevSameSender ==
                /\ index - 1 >= 1
                /\ msgs[index - 1].sender = msgs[index].sender
            isNextSameSender ==
                /\ index + 1 <= Len(msgs)
                /\ msgs[index + 1].sender = msgs[index].sender
            isFirstInGroup == ~isPrevSameSender
            isLastInGroup == ~isNextSameSender
        IN  renderMessage(c, msgs[index],
                [isPinnedView |-> FALSE,
                 isFirstInGroup |-> isFirstInGroup,
                 isLastInGroup |-> isLastInGroup])]

\* a signed-in client whose messages state has just been resynced
GroupingInit ==
    /\ SignedIn
    /\ currentUser["c1"] = "Ryan"
    /\ currentUser["c2"] = "Drex"
    /\ ChatIdle
    /\ AvailIdle
    /\ args \in {MessagesOf(s) : s \in GroupingArgs}
    /\ result = NotCalled

\* the main list is rendered
RenderMessages(c) ==
    /\ ~result.done
    /\ result' = Returned(RenderMainList(c, args))
    /\ UNCHANGED args

GroupingNext ==
    /\ \E c \in Solo : RenderMessages(c)
    /\ UNCHANGED <<profileVars, chatVars, composeVars, pinLog, pressVars,
                   availVars, calVars, viewVars, photoVars>>

SpecGrouping == GroupingInit /\ [][GroupingNext]_vars

----------------------------------------------------------------------------
(* The reaction chips of a message: getGroupedReactions.                   *)

\* the roster in the order of the source, and the users who react
FriendList ==
    <<"Cassey", "Drex", "Glad", "King", "Marielle", "Rhed", "Roan", "Ryan",
      "Teya">>
Reactors == {FriendList[k] : k \in 1..MaxReactors}

\* Object.entries(reactions): the [user, emoji] pairs of a non-empty
\* reactions map in the order of its keys; a user has one key
ReactionEntries ==
    {e \in UNION {[1..n -> Reactors \X EMOJIS] : n \in 1..MaxReactors} :
        \A i, j \in 1..Len(e) : e[i][1] = e[j][1] => i = j}

\* a mutation of GroupsAfter: a group holds the last user only
RECURSIVE GroupsAfterLastOnly(_, _)
GroupsAfterLastOnly(entries, n) ==
    IF n = 0 THEN << >>
    ELSE LET groups == GroupsAfterLastOnly(entries, n - 1)
             user == entries[n][1]
             emoji == entries[n][2]
             created ==
                 IF \E k \in 1..Len(groups) : groups[k][1] = emoji
                 THEN groups
                 ELSE Append(groups, <<emoji, << >> >>)
         IN  [k \in 1..Len(created) |->
                 IF created[k][1] = emoji
                 THEN <<emoji, <<user>> >>
                 ELSE created[k]]

\* groups after the forEach callback has run for the first n entries: the
\* keys of groups in the order they were created, each with its array
RECURSIVE GroupsAfter(_, _)
GroupsAfter(entries, n) ==
    IF n = 0 THEN << >>
    ELSE LET groups == GroupsAfter(entries, n - 1)
             user == entries[n][1]
             emoji == entries[n][2]
             created ==
                 IF \E k \in 1..Len(groups) : groups[k][1] = emoji
                 THEN groups
                 ELSE Append(groups, <<emoji, << >> >>)
         IN  [k \in 1..Len(created) |->
                 IF created[k][1] = emoji
                 THEN <<emoji, Append(created[k][2], user)>>
                 ELSE created[k]]

\* getGroupedReactions(reactions): Object.entries(groups)
getGroupedReactions(reactions) == GroupsAfter(reactions, Len(reactions))

\* a client about to render a message that has reactions
ReactionsInit ==
    /\ SignedIn
    /\ currentUser["c1"] = "Ryan"
    /\ currentUser["c2"] = "Drex"
    /\ ChatIdle
    /\ AvailIdle
    /\ args \in ReactionEntries
    /\ result = NotCalled

\* renderMessage computes groupedReactions
RenderReactions ==
    /\ ~result.done
    /\ result' = Returned(getGroupedReactions(args))
    /\ UNCHANGED args

ReactionsNext ==
    /\ RenderReactions
    /\ UNCHANGED <<profileVars, chatVars, composeVars, pinLog, pressVars,
                   availVars, calVars, viewVars, photoVars>>

SpecReactions == ReactionsInit /\ [][ReactionsNext]_vars

----------------------------------------------------------------------------
(* Gestures on a date cell of the heatmap: pointers, the long-press        *)
(* timeout, the click that follows a release, and App's detail view.       *)

\* Object.keys(availability[dateKey] || {}): the users with an entry
Attendees(c, date) ==
    {u \in FRIEND_GROUP : localAvailability[c][date][u] # Absent}

\* onDateInteract as App passes it: setAttendeeModalData({date, names})
onDateInteract(c, date, names) ==
    attendeeModalData' = [attendeeModalData EXCEPT ![c] =
                             [date |-> date, names |-> names]]

\* a pointer goes down on a date cell; the detail view, when open, covers
\* the calendar. The timeout is set without clearing the one the ref holds.
handlePointerDown(c, p, date) ==
    /\ calPointers[c][p].date = NoDate
    /\ attendeeModalData[c] = NoModal
    /\ PointerType(p) # "mouse" => Cardinality(calTimers[c]) < MaxTimers
    /\ calPointers' = [calPointers EXCEPT ![c][p] =
           [date |-> date, held |-> 0]]
    /\ IF PointerType(p) = "mouse"
       THEN UNCHANGED <<calTimers, calLongPressTimeoutRef>>
       ELSE LET id == NewTimerId(calTimers[c], calLongPressTimeoutRef[c])
            IN /\ calTimers' = [calTimers EXCEPT ![c] = @ \cup
                      {[id |-> id, date |-> date,
                        names |-> Attendees(c, date),
                        pointer |-> p, elapsed |-> 0]}]
               /\ calLongPressTimeoutRef' =
                      [calLongPressTimeoutRef EXCEPT ![c] = id]
    /\ UNCHANGED <<calClick, attendeeModalData>>

\* handlePointerUp: the timeout the ref holds is cleared and the ref reset
handlePointerUp(c) ==
    /\ calTimers' = [calTimers EXCEPT ![c] =
           {t \in @ : t.id # calLongPressTimeoutRef[c]}]
    /\ calLongPressTimeoutRef' = [calLongPressTimeoutRef EXCEPT ![c] = NoTimer]

\* a pointer on a date cell goes up where it went down: onPointerUp, and a
\* click event follows (as long as the toggle it may make is within the
\* bound). A mouse reaches the cell only under no detail view.
DatePointerUp(c, p) ==
    /\ calPointers[c][p].date # NoDate
    /\ Len(availLog) < MaxTaps
    /\ PointerType(p) = "mouse" => attendeeModalData[c] = NoModal
    /\ handlePointerUp(c)
    /\ calPointers' = [calPointers EXCEPT ![c][p] = NotOnDate]
    /\ calClick' = [calClick EXCEPT ![c] =
           [pointer |-> p, date |-> calPointers[c][p].date,
            held |-> calPointers[c][p].held]]
    /\ UNCHANGED attendeeModalData

\* a pointer slides off its date cell, or its press is cancelled (after
\* pointercancel the browser fires pointerleave): onPointerLeave, no click
DatePointerLeave(c, p) ==
    /\ calPointers[c][p].date # NoDate
    /\ handlePointerUp(c)
    /\ calPointers' = [calPointers EXCEPT ![c][p] = NotOnDate]
    /\ UNCHANGED <<calClick, attendeeModalData>>

\* the step of time at the heatmap: TicksPerPress steps make a long press
CalTickMs == (CAL_LONG_PRESS_MS + TicksPerPress - 1) \div TicksPerPress

\* a timeout of the heatmap whose 500 ms have elapsed
CalDue(t) == t.elapsed >= CAL_LONG_PRESS_MS

\* CalTickMs pass for the heatmap: no timeout is due, and the pending
\* timeouts and the presses of fingers age (how long a mouse button has
\* been down decides nothing and is not measured)
CalTick(c) ==
    /\ \A t \in calTimers[c] : ~CalDue(t)
    /\ \/ calTimers[c] # {}
       \/ \E p \in Pointers : /\ PointerType(p) # "mouse"
                               /\ calPointers[c][p].date # NoDate
                               /\ calPointers[c][p].held < CAL_LONG_PRESS_MS
    /\ calTimers' = [calTimers EXCEPT ![c] =
           {[t EXCEPT !.elapsed = Min(@ + CalTickMs, CAL_LONG_PRESS_MS)] :
               t \in @}]
    /\ calPointers' = [calPointers EXCEPT ![c] =
           [p \in Pointers |->
               IF @[p].date = NoDate \/ PointerType(p) = "mouse" THEN @[p]
               ELSE [@[p] EXCEPT !.held =
                        Min(@ + CalTickMs, CAL_LONG_PRESS_MS)]]]
    /\ UNCHANGED <<calLongPressTimeoutRef, calClick, attendeeModalData>>

\* a long-press timeout of the heatmap runs: the detail callback
CalLongPressFire(c, t) ==
    /\ t \in calTimers[c]
    /\ CalDue(t)
    /\ onDateInteract(c, t.date, t.names)
    /\ calTimers' = [calTimers EXCEPT ![c] = @ \ {t}]
    /\ UNCHANGED <<calLongPressTimeoutRef, calPointers, calClick>>

\* a right click on a date cell
handleContextMenu(c, date) ==
    /\ attendeeModalData[c] = NoModal
    /\ onDateInteract(c, date, Attendees(c, date))
    /\ UNCHANGED <<calLongPressTimeoutRef, calTimers, calPointers, calClick>>

\* the detail view is closed: a click on its overlay or its close button
CloseModal(c) ==
    /\ attendeeModalData[c] # NoModal
    /\ attendeeModalData' = [attendeeModalData EXCEPT ![c] = NoModal]
    /\ UNCHANGED <<calLongPressTimeoutRef, calTimers, calPointers, calClick>>

\* the click event that follows a pointer-up on a date cell. Under no
\* detail view it is the cell's onClick. When the detail view has opened
\* during the press, the browser dispatches the click to the cell that
\* captured the pointer, or to what lies at that point now (the overlay of
\* the detail view, which closes it, or its card), or dispatches none.
DateClick(c) ==
    /\ calClick[c] # NoDateClick
    /\ calClick' = [calClick EXCEPT ![c] = NoDateClick]
    /\ UNCHANGED <<calLongPressTimeoutRef, calTimers, calPointers>>
    /\ \/ /\ toggleAvailability(c, calClick[c].date)
          /\ UNCHANGED attendeeModalData
       \/ /\ attendeeModalData[c] # NoModal
          /\ attendeeModalData' = [attendeeModalData EXCEPT ![c] = NoModal]
          /\ UNCHANGED availVars
       \/ /\ attendeeModalData[c] # NoModal
          /\ UNCHANGED <<availVars, attendeeModalData>>

\* the frame of the heatmap's gestures
GestureFrame == UNCHANGED availVars

\* the date cells the gestures are made on
PressDates == {"2025-10-01"}

\* one signed-in client using the calendar by touch and by mouse
CalNext ==
    /\ UNCHANGED <<profileVars, chatVars, composeVars, pinLog, pressVars,
                   pureVars, viewVars, photoVars>>
    /\ \E c \in Solo :
        \/ /\ calClick[c] = NoDateClick
           /\ \/ \E p \in Pointers : \E date \in PressDates :
                    handlePointerDown(c, p, date) /\ GestureFrame
              \/ \E p \in Pointers : DatePointerUp(c, p) /\ GestureFrame
              \/ \E p \in Pointers : DatePointerLeave(c, p) /\ GestureFrame
              \/ CalTick(c) /\ GestureFrame
              \/ \E t \in calTimers[c] :
                    CalLongPressFire(c, t) /\ GestureFrame
              \/ \E date \in PressDates :
                    handleContextMenu(c, date) /\ GestureFrame
              \/ CloseModal(c) /\ GestureFrame
              \/ AvailabilitySnapshot(c) /\ UNCHANGED calVars
        \* the click of a release is dispatched right after the pointer-up
        \/ DateClick(c)
        \/ AvailStoreApply(c) /\ UNCHANGED calVars

\* two signed-in users and an empty calendar
CalInit ==
    /\ AvailInit
    /\ currentUser["c1"] = "Ryan"
    /\ currentUser["c2"] = "Drex"

SpecCal == CalInit /\ [][CalNext]_vars

----------------------------------------------------------------------------
(* Rendering of ProfileSelector: which screen a mounted selector shows *)

Mounted(c) == currentUser[c] = Null

PhotoScreen(c) ==
    Mounted(c) /\ selectedFriend[c] # Null /\ mode[c] = "onboarding_photo"

PinScreen(c) ==
    Mounted(c) /\ selectedFriend[c] # Null /\ mode[c] \in {"create", "enter"}

GridScreen(c) == Mounted(c) /\ ~PhotoScreen(c) /\ ~PinScreen(c)

\* a continuation's setState calls act only on the mount that started it,
\* while it is mounted
Live(c, t) == Mounted(c) /\ t.live

----------------------------------------------------------------------------
(* Initial state: any store content earlier sessions can have left, every  *)
(* client on the profile grid                                              *)

SelectorInit ==
    /\ PhotoIdle
    /\ pins \in [FRIEND_GROUP -> {Null, "1111"}]
    /\ currentUser = [c \in Clients |-> Null]
    /\ selectedFriend = [c \in Clients |-> Null]
    /\ mode = [c \in Clients |-> Null]
    /\ loading = [c \in Clients |-> FALSE]
    /\ error = [c \in Clients |-> ""]
    /\ pinDigits = [c \in Clients |-> EmptyDigits]
    /\ focus = [c \in Clients |-> 1]
    /\ tasks = [c \in Clients |-> EmptyBag]

----------------------------------------------------------------------------
(* ProfileSelector handlers *)

LookupTask(c, name) ==
    [kind |-> "lookup", live |-> TRUE, name |-> name, mode |-> Null,
     pin |-> "", phase |-> "sent", val |-> Null]

SubmitTask(c, digits) ==
    [kind |-> "submit", live |-> TRUE, name |-> selectedFriend[c],
     mode |-> mode[c], pin |-> Join(digits), phase |-> "sent", val |-> Null]

\* handleProfileClick up to the await
handleProfileClick(c, name) ==
    /\ GridScreen(c)
    /\ ~loading[c]
    /\ BagCardinality(tasks[c]) < MaxTasks
    /\ loading' = [loading EXCEPT ![c] = TRUE]
    /\ selectedFriend' = [selectedFriend EXCEPT ![c] = name]
    /\ pinDigits' = [pinDigits EXCEPT ![c] = EmptyDigits]
    /\ error' = [error EXCEPT ![c] = ""]
    /\ tasks' = [tasks EXCEPT ![c] = With(@, LookupTask(c, name))]
    /\ UNCHANGED <<pins, currentUser, mode, focus>>

\* the store answers get(users/{name}/pin)
ServeGet(c, t) ==
    /\ t \in BagToSet(tasks[c])
    /\ t.phase = "sent"
    /\ \/ t.kind = "lookup"
       \/ t.kind = "submit" /\ t.mode = "enter"
    /\ tasks' = [tasks EXCEPT ![c] =
                    With(Without(@, t),
                         [t EXCEPT !.phase = "served", !.val = pins[t.name]])]
    /\ UNCHANGED <<pins, currentUser, selectedFriend, mode, loading, error,
                   pinDigits, focus>>

\* the effect on [mode]: a change of mode to a PIN mode focuses the first
\* field when the fields are rendered (inputRefs.current[0] is set)
FocusEffect(c, newMode) ==
    IF /\ newMode # mode[c]
       /\ newMode \in {"create", "enter"}
       /\ selectedFriend[c] # Null
    THEN focus' = [focus EXCEPT ![c] = 1]
    ELSE UNCHANGED focus

\* a mutation of ModeAfterLookup: a first-time user goes straight to the PIN
ModeAfterLookupSkipsPhoto(val) == IF val # Null THEN "enter" ELSE "create"

\* snapshot.exists() ? 'enter' : 'onboarding_photo'
ModeAfterLookup(val) == IF val # Null THEN "enter" ELSE "onboarding_photo"

\* handleProfileClick after the await
handleProfileClickResume(c, t) ==
    /\ t \in BagToSet(tasks[c])
    /\ t.kind = "lookup"
    /\ t.phase = "served"
    /\ tasks' = [tasks EXCEPT ![c] = Without(@, t)]
    /\ IF Live(c, t)
       THEN /\ mode' = [mode EXCEPT ![c] = ModeAfterLookup(t.val)]
            /\ FocusEffect(c, ModeAfterLookup(t.val))
            /\ loading' = [loading EXCEPT ![c] = FALSE]
       ELSE UNCHANGED <<mode, loading, focus>>
    /\ UNCHANGED <<pins, currentUser, selectedFriend, error, pinDigits>>

handleSkipPhoto(c) ==
    /\ PhotoScreen(c)
    /\ mode' = [mode EXCEPT ![c] = "create"]
    /\ FocusEffect(c, "create")
    /\ UNCHANGED <<pins, currentUser, selectedFriend, loading, error,
                   pinDigits, tasks>>

\* the effect on [pinDigits] and submitPin up to its await; digits is the
\* value just committed by setPinDigits
SubmitEffect(c, digits) ==
    IF AllFilled(digits) /\ selectedFriend[c] # Null
    THEN /\ loading' = [loading EXCEPT ![c] = TRUE]
         /\ tasks' = [tasks EXCEPT ![c] = With(@, SubmitTask(c, digits))]
    ELSE UNCHANGED <<loading, tasks>>

handleDigitChange(c, index, value) ==
    /\ PinScreen(c)
    /\ BagCardinality(tasks[c]) < MaxTasks
    /\ IF IsNaNNumber(value)
       THEN UNCHANGED <<pinDigits, error, loading, tasks, focus>>
       ELSE \* value.substring(value.length - 1) of a field value of at most
            \* one character (maxLength=1) is that value
            LET newDigits == [pinDigits[c] EXCEPT ![index] = value]
            IN /\ pinDigits' = [pinDigits EXCEPT ![c] = newDigits]
               /\ focus' = [focus EXCEPT ![c] =
                      IF value # "" /\ index < PinLen THEN index + 1 ELSE @]
               /\ error' = [error EXCEPT ![c] = ""]
               /\ SubmitEffect(c, newDigits)
    /\ UNCHANGED <<pins, currentUser, selectedFriend, mode>>

\* a key typed into the focused field while it is empty (maxLength=1 lets
\* no second character in)
TypeKey(c, value) ==
    /\ pinDigits[c][focus[c]] = ""
    /\ handleDigitChange(c, focus[c], value)

\* Backspace in the focused field: handleKeyDown moves the focus back from an
\* empty field, and a filled field is emptied, which raises the change event
handleKeyDown(c) ==
    /\ PinScreen(c)
    /\ IF pinDigits[c][focus[c]] = ""
       THEN /\ focus[c] > 1
            /\ focus' = [focus EXCEPT ![c] = @ - 1]
            /\ UNCHANGED <<pins, currentUser, selectedFriend, mode, loading,
                           error, pinDigits, tasks>>
       ELSE handleDigitChange(c, focus[c], "")

\* the Cancel button of the PIN screen
Cancel(c) ==
    /\ PinScreen(c)
    /\ selectedFriend' = [selectedFriend EXCEPT ![c] = Null]
    /\ mode' = [mode EXCEPT ![c] = Null]
    /\ UNCHANGED <<pins, currentUser, loading, error, pinDigits, focus, tasks>>

\* the store applies set(users/{name}/pin, pin)
ServeSetPin(c, t) ==
    /\ t \in BagToSet(tasks[c])
    /\ t.kind = "submit"
    /\ t.mode = "create"
    /\ t.phase = "sent"
    /\ pins' = [pins EXCEPT ![t.name] = t.pin]
    /\ tasks' = [tasks EXCEPT ![c] =
                    With(Without(@, t), [t EXCEPT !.phase = "served"])]
    /\ UNCHANGED <<currentUser, selectedFriend, mode, loading, error,
                   pinDigits, focus>>

\* the pending calls once the mount that started them is gone
Orphaned(b) ==
    LET Orphan(t) == [t EXCEPT !.live = FALSE]
        orphans == {Orphan(t) : t \in BagToSet(b)}
    IN [o \in orphans |->
          BagCardinality([t \in {u \in BagToSet(b) : Orphan(u) = o} |->
                             CopiesIn(t, b)])]

\* onSelect(name): App sets currentUser, which unmounts ProfileSelector; t is
\* the call that resumes
onSelect(c, name, t) ==
    /\ currentUser' = [currentUser EXCEPT ![c] = name]
    /\ tasks' = [tasks EXCEPT ![c] = Orphaned(Without(@, t))]
    /\ focus' = [focus EXCEPT ![c] = 1]
    /\ selectedFriend' = [selectedFriend EXCEPT ![c] = Null]
    /\ mode' = [mode EXCEPT ![c] = Null]
    /\ loading' = [loading EXCEPT ![c] = FALSE]
    /\ error' = [error EXCEPT ![c] = ""]
    /\ pinDigits' = [pinDigits EXCEPT ![c] = EmptyDigits]

\* the branch of submitPin after its await that rejects the entry
RejectPin(c, t) ==
    /\ IF Live(c, t)
       THEN /\ error' = [error EXCEPT ![c] = "Incorrect PIN"]
            /\ pinDigits' = [pinDigits EXCEPT ![c] = EmptyDigits]
            /\ focus' = [focus EXCEPT ![c] = 1]
            /\ loading' = [loading EXCEPT ![c] = FALSE]
       ELSE UNCHANGED <<error, pinDigits, focus, loading>>
    /\ tasks' = [tasks EXCEPT ![c] = Without(@, t)]
    /\ UNCHANGED <<currentUser, selectedFriend, mode>>

\* a mutation of PinMatches: the comparison is dropped
PinMatchesAlways(t) == TRUE

\* pin === snapshot.val()
PinMatches(t) == t.pin = t.val

\* a mutation of submitPinResume: in mode 'create' the write is not awaited
submitPinResumeBeforeWrite(c, t) ==
    /\ t \in BagToSet(tasks[c])
    /\ t.kind = "submit"
    /\ t.phase = "served" \/ (t.mode = "create" /\ t.phase = "sent")
    /\ IF t.mode = "create" THEN onSelect(c, t.name, t)
       ELSE IF PinMatches(t) THEN onSelect(c, t.name, t)
       ELSE RejectPin(c, t)
    /\ UNCHANGED pins

\* submitPin after the await
submitPinResume(c, t) ==
    /\ t \in BagToSet(tasks[c])
    /\ t.kind = "submit"
    /\ t.phase = "served"
    /\ IF t.mode = "create" THEN onSelect(c, t.name, t)
       ELSE IF PinMatches(t) THEN onSelect(c, t.name, t)
       ELSE RejectPin(c, t)
    /\ UNCHANGED pins

\* Switch Profile in the App header: ProfileSelector is mounted afresh
SwitchProfile(c) ==
    /\ currentUser[c] # Null
    /\ currentUser' = [currentUser EXCEPT ![c] = Null]
    /\ UNCHANGED <<pins, selectedFriend, mode, loading, error, pinDigits,
                   focus, tasks>>

ProfileStep(c) ==
    \/ \E name \in FRIEND_GROUP : handleProfileClick(c, name)
    \/ \E t \in BagToSet(tasks[c]) : ServeGet(c, t)
    \/ \E t \in BagToSet(tasks[c]) : handleProfileClickResume(c, t)
    \/ handleSkipPhoto(c)
    \/ \E value \in TypedAt(focus[c]) : TypeKey(c, value)
    \/ handleKeyDown(c)
    \/ Cancel(c)
    \/ \E t \in BagToSet(tasks[c]) : ServeSetPin(c, t)
    \/ \E t \in BagToSet(tasks[c]) : submitPinResume(c, t)
    \/ SwitchProfile(c)

\* one client running the profile flows against a store that may already
\* hold PINs
ProfileNext ==
    /\ \E c \in Solo : ProfileStep(c)
    /\ UNCHANGED <<chatVars, availVars, composeVars, pinLog, pressVars, calVars, pureVars, viewVars, photoVars>>

ProfileInit == SelectorInit /\ ChatIdle /\ AvailIdle /\ HelpersIdle

SpecProfile == ProfileInit /\ [][ProfileNext]_vars

\* two clients racing through the profile flows on an empty store, each with
\* one call in flight at a time and no Switch Profile
RaceInit == ProfileInit /\ pins = [n \in FRIEND_GROUP |-> Null]

RaceNext ==
    /\ UNCHANGED <<chatVars, availVars, composeVars, pinLog, pressVars, calVars, pureVars, viewVars, photoVars>>
    /\ \E c \in Clients :
        \/ /\ tasks[c] = EmptyBag
           /\ \/ handleProfileClick(c, "Ryan")
              \/ \E value \in TypedAt(focus[c]) : TypeKey(c, value)
              \/ handleKeyDown(c)
        \/ \E t \in BagToSet(tasks[c]) : ServeGet(c, t)
        \/ \E t \in BagToSet(tasks[c]) : handleProfileClickResume(c, t)
        \/ handleSkipPhoto(c)
        \/ Cancel(c)
        \/ \E t \in BagToSet(tasks[c]) : ServeSetPin(c, t)
        \/ \E t \in BagToSet(tasks[c]) : submitPinResume(c, t)

SpecProfileRace == RaceInit /\ [][RaceNext]_vars

----------------------------------------------------------------------------
(* The onboarding photo step *)

\* the data URL of the image the user chooses
Image == "img"

SaveTask(c) ==
    [kind |-> "save", live |-> TRUE, name |-> selectedFriend[c],
     mode |-> mode[c], pin |-> "", phase |-> "sent", val |-> imageSrc[c]]

\* the file input of the photo step, rendered while no image is chosen: the
\* reader loads the chosen file and setImageSrc takes its data URL
onFileChange(c) ==
    /\ PhotoScreen(c)
    /\ imageSrc[c] = Null
    /\ imageSrc' = [imageSrc EXCEPT ![c] = Image]
    /\ UNCHANGED <<profileVars, avatars>>

\* the Cancel button of the preview: setImageSrc(null)
CancelPhoto(c) ==
    /\ PhotoScreen(c)
    /\ imageSrc[c] # Null
    /\ imageSrc' = [imageSrc EXCEPT ![c] = Null]
    /\ UNCHANGED <<profileVars, avatars>>

\* handleSavePhoto up to the await of set(users/{name}/avatar); the button
\* is rendered with the preview and disabled while loading
handleSavePhoto(c) ==
    /\ PhotoScreen(c)
    /\ imageSrc[c] # Null
    /\ ~loading[c]
    /\ BagCardinality(tasks[c]) < MaxTasks
    /\ loading' = [loading EXCEPT ![c] = TRUE]
    /\ tasks' = [tasks EXCEPT ![c] = With(@, SaveTask(c))]
    /\ UNCHANGED <<pins, currentUser, selectedFriend, mode, error, pinDigits,
                   focus, photoVars>>

\* the store applies set(users/{name}/avatar, image)
ServeSetAvatar(c, t) ==
    /\ t \in BagToSet(tasks[c])
    /\ t.kind = "save"
    /\ t.phase = "sent"
    /\ avatars' = [avatars EXCEPT ![t.name] = t.val]
    /\ tasks' = [tasks EXCEPT ![c] =
                    With(Without(@, t), [t EXCEPT !.phase = "served"])]
    /\ UNCHANGED <<pins, currentUser, selectedFriend, mode, loading, error,
                   pinDigits, focus, imageSrc>>

\* the store rejects the write: the promise of set is rejected
RejectSetAvatar(c, t) ==
    /\ t \in BagToSet(tasks[c])
    /\ t.kind = "save"
    /\ t.phase = "sent"
    /\ tasks' = [tasks EXCEPT ![c] =
                    With(Without(@, t), [t EXCEPT !.phase = "failed"])]
    /\ UNCHANGED <<pins, currentUser, selectedFriend, mode, loading, error,
                   pinDigits, focus, photoVars>>

\* a mutation of handleSavePhotoResume: a failed save moves on as well
handleSavePhotoResumeAlways(c, t) ==
    /\ t \in BagToSet(tasks[c])
    /\ t.kind = "save"
    /\ t.phase \in {"served", "failed"}
    /\ tasks' = [tasks EXCEPT ![c] = Without(@, t)]
    /\ IF Live(c, t)
       THEN /\ loading' = [loading EXCEPT ![c] = FALSE]
            /\ mode' = [mode EXCEPT ![c] = "create"]
            /\ FocusEffect(c, "create")
            /\ UNCHANGED error
       ELSE UNCHANGED <<loading, mode, focus, error>>
    /\ UNCHANGED <<pins, currentUser, selectedFriend, pinDigits, photoVars>>

\* handleSavePhoto after the await, and its catch
handleSavePhotoResume(c, t) ==
    /\ t \in BagToSet(tasks[c])
    /\ t.kind = "save"
    /\ t.phase \in {"served", "failed"}
    /\ tasks' = [tasks EXCEPT ![c] = Without(@, t)]
    /\ IF Live(c, t)
       THEN IF t.phase = "served"
            THEN /\ loading' = [loading EXCEPT ![c] = FALSE]
                 /\ mode' = [mode EXCEPT ![c] = "create"]
                 /\ FocusEffect(c, "create")
                 /\ UNCHANGED error
            ELSE /\ loading' = [loading EXCEPT ![c] = FALSE]
                 /\ error' = [error EXCEPT ![c] = "Failed to save image"]
                 /\ UNCHANGED <<mode, focus>>
       ELSE UNCHANGED <<loading, mode, focus, error>>
    /\ UNCHANGED <<pins, currentUser, selectedFriend, pinDigits, photoVars>>

\* imageSrc is state of the mount and goes with it
PhotoAfter(c) ==
    /\ imageSrc' = [imageSrc EXCEPT ![c] =
                       IF currentUser'[c] # Null THEN Null ELSE @]
    /\ UNCHANGED avatars

OnboardingStep(c) ==
    \/ \E name \in FRIEND_GROUP : handleProfileClick(c, name) /\ PhotoAfter(c)
    \/ \E t \in BagToSet(tasks[c]) : ServeGet(c, t) /\ PhotoAfter(c)
    \/ \E t \in BagToSet(tasks[c]) :
          handleProfileClickResume(c, t) /\ PhotoAfter(c)
    \* Skip for now is rendered while no image is chosen
    \/ imageSrc[c] = Null /\ handleSkipPhoto(c) /\ PhotoAfter(c)
    \/ onFileChange(c)
    \/ CancelPhoto(c)
    \/ handleSavePhoto(c)
    \/ \E t \in BagToSet(tasks[c]) : ServeSetAvatar(c, t)
    \/ \E t \in BagToSet(tasks[c]) : RejectSetAvatar(c, t)
    \/ \E t \in BagToSet(tasks[c]) : handleSavePhotoResume(c, t)
    \/ \E value \in TypedAt(focus[c]) : TypeKey(c, value) /\ PhotoAfter(c)
    \/ handleKeyDown(c) /\ PhotoAfter(c)
    \/ Cancel(c) /\ PhotoAfter(c)
    \/ \E t \in BagToSet(tasks[c]) : ServeSetPin(c, t) /\ PhotoAfter(c)
    \/ \E t \in BagToSet(tasks[c]) : submitPinResume(c, t) /\ PhotoAfter(c)

\* one client going through the profile flows, the photo step included,
\* until it is signed in; one profile has a PIN and the other has none
OnboardingInit ==
    /\ ProfileInit
    /\ pins = [n \in FRIEND_GROUP |-> IF n = "Ryan" THEN "1111" ELSE Null]

OnboardingNext ==
    /\ \E c \in Solo : OnboardingStep(c)
    /\ UNCHANGED <<chatVars, availVars, composeVars, pinLog, pressVars,
                   calVars, pureVars, viewVars>>

SpecOnboarding == OnboardingInit /\ [][OnboardingNext]_vars

----------------------------------------------------------------------------
(* A PIN lookup that fails *)

\* the promise of get(users/{name}/pin) is rejected: the await throws, the
\* rest of handleProfileClick does not run and nothing catches it
RejectGet(c, t) ==
    /\ t \in BagToSet(tasks[c])
    /\ t.kind = "lookup"
    /\ t.phase = "sent"
    /\ tasks' = [tasks EXCEPT ![c] = Without(@, t)]
    /\ UNCHANGED <<pins, currentUser, selectedFriend, mode, loading, error,
                   pinDigits, focus>>

\* a control of the rendered screen the user can act on: a profile button of
\* the grid (rendered unless loading), or whatever the photo step and the PIN
\* screen show (Skip or the preview's Cancel, the PIN screen's Cancel)
UserCanAct(c) ==
    \/ GridScreen(c) /\ ~loading[c]
    \/ PhotoScreen(c)
    \/ PinScreen(c)

LookupStep(c) ==
    \/ ProfileStep(c)
    \/ \E t \in BagToSet(tasks[c]) : RejectGet(c, t)

\* one client running the profile flows against a store whose reads can fail
LookupNext ==
    /\ \E c \in Solo : LookupStep(c)
    /\ UNCHANGED <<chatVars, availVars, composeVars, pinLog, pressVars,
                   calVars, pureVars, viewVars, photoVars>>

SpecLookup == OnboardingInit /\ [][LookupNext]_vars

----------------------------------------------------------------------------
(* Pasting into the PIN fields *)

\* the characters of the clipboard texts: a digit, a space and a letter
PasteChars == {"1"} \cup Whitespace \cup {"x"}

\* what the clipboard can hold: a run of the digit with at most one other
\* character in it
ClipboardTexts ==
    {text \in UNION {[1..k -> PasteChars] : k \in 0..MaxPaste} :
        Cardinality({i \in 1..Len(text) : text[i] # "1"}) <= 1}

\* getData('text').slice(0, 4).split('')
PasteData(text) == SubSeq(text, 1, Min(Len(text), PinLen))

\* handlePaste, with the effect on [pinDigits] that follows setPinDigits;
\* the default insertion is prevented, so no change event follows
handlePaste(c, text) ==
    /\ PinScreen(c)
    /\ BagCardinality(tasks[c]) < MaxTasks
    /\ LET pasteData == PasteData(text)
       IN IF \A i \in 1..Len(pasteData) : ~IsNaNNumber(pasteData[i])
          THEN LET newDigits == [i \in 1..PinLen |->
                                   IF i <= Len(pasteData) THEN pasteData[i]
                                   ELSE pinDigits[c][i]]
               IN /\ pinDigits' = [pinDigits EXCEPT ![c] = newDigits]
                  /\ focus' = [focus EXCEPT ![c] =
                                  Min(Len(pasteData), PinLen - 1) + 1]
                  /\ SubmitEffect(c, newDigits)
          ELSE UNCHANGED <<pinDigits, focus, loading, tasks>>
    /\ UNCHANGED <<pins, currentUser, selectedFriend, mode, error>>

PasteStep(c) ==
    \/ \E name \in FRIEND_GROUP : handleProfileClick(c, name)
    \/ \E t \in BagToSet(tasks[c]) : ServeGet(c, t)
    \/ \E t \in BagToSet(tasks[c]) : handleProfileClickResume(c, t)
    \/ handleSkipPhoto(c)
    \* the user pastes and types while no call is pending
    \/ /\ tasks[c] = EmptyBag
       /\ \/ \E text \in ClipboardTexts : handlePaste(c, text)
          \/ \E value \in TypedAt(focus[c]) \cup Whitespace : TypeKey(c, value)
          \/ handleKeyDown(c)
    \/ Cancel(c)
    \/ \E t \in BagToSet(tasks[c]) : ServeSetPin(c, t)
    \/ \E t \in BagToSet(tasks[c]) : submitPinResume(c, t)

\* one client entering PINs by keyboard and by clipboard; one profile has a
\* PIN and the other has none
PasteNext ==
    /\ \E c \in Solo : PasteStep(c)
    /\ UNCHANGED <<chatVars, availVars, composeVars, pinLog, pressVars,
                   calVars, pureVars, viewVars, photoVars>>

SpecPaste == OnboardingInit /\ [][PasteNext]_vars

----------------------------------------------------------------------------
(* The chat and the calendar together, with the store and the subscriptions *)
(* delivering whatever is pending                                          *)

\* the log of earlier sessions in the store, nothing delivered yet
SyncInit == LogInit /\ messages # << >>

\* the calls of all kinds made so far
AllWrites == Writes + Len(availLog)

SyncSend(c) ==
    /\ c \in Solo
    /\ AllWrites < MaxWrites
    /\ \/ setNewMessage(c, " yo") /\ UNCHANGED <<chatVars, pinLog>>
       \/ sendMessage(c) /\ UNCHANGED pinLog
    /\ UNCHANGED <<profileVars, availVars, pressVars, calVars, pureVars, viewVars, photoVars>>

SyncReaction(c) ==
    /\ AllWrites < MaxWrites
    /\ \E msgId \in 1..NumMessages : \E emoji \in EMOJIS :
           /\ FindMessage(c, msgId) # {}
           /\ toggleReaction(c, msgId, emoji)
    /\ UNCHANGED <<profileVars, availVars, composeVars, pinLog, pressVars, calVars, pureVars, viewVars, photoVars>>

SyncPin(c) ==
    /\ AllWrites < MaxWrites
    /\ \E msgId \in MessageIds : togglePin(c, msgId)
    /\ UNCHANGED <<profileVars, availVars, composeVars, pressVars, calVars, pureVars, viewVars, photoVars>>

SyncAvailability(c) ==
    /\ AllWrites < MaxWrites
    /\ \E date \in Dates : toggleAvailability(c, date)
    /\ UNCHANGED <<profileVars, chatVars, composeVars, pinLog, pressVars, calVars, pureVars, viewVars, photoVars>>

ChatApplied(c) ==
    /\ ChatStoreApply(c)
    /\ UNCHANGED <<profileVars, availVars, composeVars, pinLog, pressVars, calVars, pureVars, viewVars, photoVars>>

ChatDelivered(c) ==
    /\ MessagesSnapshot(c)
    /\ UNCHANGED <<profileVars, availVars, composeVars, pinLog, pressVars, calVars, pureVars, viewVars, photoVars>>

AvailApplied(c) ==
    /\ AvailStoreApply(c)
    /\ UNCHANGED <<profileVars, chatVars, composeVars, pinLog, pressVars, calVars, pureVars, viewVars, photoVars>>

AvailDelivered(c) ==
    /\ AvailabilitySnapshot(c)
    /\ UNCHANGED <<profileVars, chatVars, composeVars, pinLog, pressVars, calVars, pureVars, viewVars, photoVars>>

SyncNext ==
    \E c \in Clients :
        \/ SyncSend(c)
        \/ SyncReaction(c)
        \/ SyncPin(c)
        \/ SyncAvailability(c)
        \/ ChatApplied(c)
        \/ ChatDelivered(c)
        \/ AvailApplied(c)
        \/ AvailDelivered(c)

\* every pending write is applied and every pending snapshot delivered
SyncFairness ==
    \A c \in Clients :
        /\ WF_vars(ChatApplied(c))
        /\ WF_vars(ChatDelivered(c))
        /\ WF_vars(AvailApplied(c))
        /\ WF_vars(AvailDelivered(c))

SpecSync == SyncInit /\ [][SyncNext]_vars /\ SyncFairness

----------------------------------------------------------------------------
(* Claims about the profile flows *)

\* call t of client c resumes (leaves the pending calls) in this step
Resumed(c, t) ==
    /\ t \in BagToSet(tasks[c])
    /\ t.phase = "served"
    /\ tasks'[c] \in {Without(tasks[c], t), Orphaned(Without(tasks[c], t))}

\* the store answers call t of client c in this step, with value v
Served(c, t, v) ==
    /\ t \in BagToSet(tasks[c])
    /\ t.phase = "sent"
    /\ tasks'[c] = With(Without(tasks[c], t),
                        [t EXCEPT !.phase = "served", !.val = v])

\* the profile grid with no profile selected: the state Cancel leaves
InNone(c) == Mounted(c) /\ selectedFriend[c] = Null /\ mode[c] = Null

\* the number of submitPin calls of the current mount that have not resumed
SubmitsInFlight(c) ==
    LET subs == {t \in BagToSet(tasks[c]) : t.kind = "submit" /\ t.live}
    IN BagCardinality([t \in subs |-> CopiesIn(t, tasks[c])])

\* C1: once users/{name}/pin holds a value, no step of any client changes it.
C1_PinNeverChanges ==
    [][\A n \in FRIEND_GROUP : pins[n] # Null => pins'[n] = pins[n]]_vars

\* C2: when submitPin resumes in mode 'enter', onSelect(name) is called iff
\* the entry equals the PIN that was read; on a mismatch currentUser is
\* unchanged, the error is 'Incorrect PIN' and the four fields are empty.
C2_EnterAuthIffMatch ==
    [][\A c \in Clients : \A t \in BagToSet(tasks[c]) :
          (Resumed(c, t) /\ t.kind = "submit" /\ t.mode = "enter")
          => /\ t.pin = t.val => currentUser'[c] = t.name
             /\ t.pin # t.val =>
                   /\ currentUser'[c] = currentUser[c]
                   /\ Live(c, t) => /\ error'[c] = "Incorrect PIN"
                                     /\ pinDigits'[c] = EmptyDigits]_vars

\* C2 witness: a wrong entry has been rejected and the session is still
\* unauthenticated.
C2_Witness ==
    \E c \in Clients :
        /\ currentUser[c] = Null
        /\ mode[c] = "enter"
        /\ error[c] = "Incorrect PIN"
        /\ pinDigits[c] = EmptyDigits

\* C3: the store answers a lookup with the PIN stored at that moment, and the
\* continuation of the lookup sets the mode to 'enter' when a PIN was found
\* and to 'onboarding_photo' when none was; it sets no other mode.
C3_LookupBranches ==
    [][\A c \in Clients : \A t \in BagToSet(tasks[c]) :
          /\ t.kind = "lookup" =>
                \A v \in {Null, "1111", "1112"} :
                    Served(c, t, v) => v = pins[t.name]
          /\ (Resumed(c, t) /\ t.kind = "lookup" /\ Live(c, t))
              => /\ t.val # Null => mode'[c] = "enter"
                 /\ t.val = Null => mode'[c] = "onboarding_photo"]_vars

\* C3 witness: a first-time user has been sent to the photo step, the lookup
\* having found no PIN.
C3_Witness ==
    \E c \in Clients :
        /\ mode[c] = "onboarding_photo"
        /\ selectedFriend[c] # Null
        /\ pins[selectedFriend[c]] = Null
        /\ tasks[c] = EmptyBag

\* C4: in None (the state Cancel leaves) no step authenticates the session
\* and no PIN submission is started.
C4_CancelStaysInNone ==
    [][\A c \in Clients :
          InNone(c) =>
              /\ currentUser'[c] = Null
              /\ \A t \in BagToSet(tasks'[c]) :
                     (t.kind = "submit" /\ t.phase = "sent")
                     => CopiesIn(t, tasks'[c]) <= CopiesIn(t, tasks[c])]_vars

\* C5: a mounted selector never has two submissions in flight.
C5_OneSubmissionInFlight ==
    \A c \in Clients : SubmitsInFlight(c) <= 1

----------------------------------------------------------------------------
(* Claims about reactions and availability *)

\* the toggleReaction calls made on message id by clients signed in as user
ReactionCalls(id, user) ==
    LET Mine(t) == t.id = id /\ currentUser[t.client] = user
    IN SelectSeq(reactionLog, Mine)

\* the toggleAvailability calls made on date by clients signed in as user
AvailCalls(date, user) ==
    LET Mine(t) == t.date = date /\ currentUser[t.client] = user
    IN SelectSeq(availLog, Mine)

\* C6: a toggleReaction(msgId, emoji) call by client c adds exactly one write
\* to c's pending writes, a remove of reactions/U when c's cached message has
\* U's reaction equal to emoji and a set of reactions/U to emoji otherwise;
\* with no cached message of that id it adds none. The store itself and the
\* other clients' pending writes are untouched by the call.
C6_ToggleReactionWrite ==
    [][\A c \in Clients : \A msgId \in 1..NumMessages : \A emoji \in EMOJIS :
          toggleReaction(c, msgId, emoji) =>
            LET cached == {i \in 1..Len(localMessages[c]) :
                              localMessages[c][i].id = msgId}
                U == currentUser[c]
            IN /\ messages' = messages
               /\ \A o \in Clients \ {c} : chatOutbox'[o] = chatOutbox[o]
               /\ IF cached = {}
                  THEN chatOutbox'[c] = chatOutbox[c]
                  ELSE LET r == localMessages[c][CHOOSE i \in cached : TRUE].reactions
                       IN IF U \in DOMAIN r /\ r[U] = emoji
                          THEN chatOutbox'[c] = Append(chatOutbox[c],
                                   [op |-> "remove", id |-> msgId, user |-> U,
                                    emoji |-> Null])
                          ELSE chatOutbox'[c] = Append(chatOutbox[c],
                                   [op |-> "update", id |-> msgId, user |-> U,
                                    emoji |-> emoji])]_vars

\* C6 witness: a call has found the caller's reaction equal to the emoji and
\* its remove is pending.
C6_Witness ==
    \E c \in Clients :
        /\ chatOutbox[c] # << >>
        /\ chatOutbox[c][Len(chatOutbox[c])].op = "remove"
        /\ reactionLog # << >>
        /\ reactionLog[Len(reactionLog)].seen = reactionLog[Len(reactionLog)].emoji

\* two calls by one client with the same emoji, the first made while the
\* caller saw no reaction of its user; all of that client's writes applied
TwoReactionToggles(c, id, emoji) ==
    LET calls == ReactionCalls(id, currentUser[c])
    IN /\ Len(calls) = 2
       /\ calls[1].client = c /\ calls[2].client = c
       /\ calls[1].emoji = emoji /\ calls[2].emoji = emoji
       /\ calls[1].seen = Null
       /\ chatOutbox[c] = << >>

\* C7 as claimed: after two toggles with the same emoji for the same user on
\* the same message, starting from no reaction, the store holds no reaction
\* of that user on that message.
C7_TwiceReturnsToNone ==
    \A c \in Clients : \A id \in 1..NumMessages : \A emoji \in EMOJIS :
        TwoReactionToggles(c, id, emoji)
        => currentUser[c] \notin DOMAIN messages[id].reactions

\* C7 amended: the same, when the second toggle is made after the client's
\* cache has shown the reaction set by the first.
C7_TwiceReturnsToNoneSynced ==
    \A c \in Clients : \A id \in 1..NumMessages : \A emoji \in EMOJIS :
        (TwoReactionToggles(c, id, emoji)
           /\ ReactionCalls(id, currentUser[c])[2].seen = emoji)
        => currentUser[c] \notin DOMAIN messages[id].reactions

\* C7 witness: set, resynced, removed, and no reaction is left.
C7_Witness ==
    \E c \in Clients : \E id \in 1..NumMessages : \E emoji \in EMOJIS :
        /\ TwoReactionToggles(c, id, emoji)
        /\ ReactionCalls(id, currentUser[c])[2].seen = emoji
        /\ currentUser[c] \notin DOMAIN messages[id].reactions

\* two calls by one client on one date, the first made while the caller saw
\* its user not marked; all of that client's writes applied
TwoAvailToggles(c, date) ==
    LET calls == AvailCalls(date, currentUser[c])
    IN /\ Len(calls) = 2
       /\ calls[1].client = c /\ calls[2].client = c
       /\ calls[1].seen = Absent
       /\ availOutbox[c] = << >>

\* C8 as claimed: after two availability toggles by the same client on the
\* same date, the first marking it available, the store has no entry for the
\* user on that date.
C8_MarkUnmarkLeavesNoEntry ==
    \A c \in Clients : \A date \in Dates :
        TwoAvailToggles(c, date) => availability[date][currentUser[c]] = Absent

\* C8 amended: the same, when the second toggle is made after the client's
\* cache has shown the entry set by the first.
C8_MarkUnmarkLeavesNoEntrySynced ==
    \A c \in Clients : \A date \in Dates :
        (TwoAvailToggles(c, date)
           /\ AvailCalls(date, currentUser[c])[2].seen = JsTrue)
        => availability[date][currentUser[c]] = Absent

\* C8 witness: marked, resynced, unmarked, and the key is absent.
C8_Witness ==
    \E c \in Clients : \E date \in Dates :
        /\ TwoAvailToggles(c, date)
        /\ AvailCalls(date, currentUser[c])[2].seen = JsTrue
        /\ availability[date][currentUser[c]] = Absent

\* C9: a toggle issues a delete of availability/{date}/{user} when the cache
\* has an entry for the user on the date and a set to true otherwise, and the
\* store changes nothing then; when the store applies the write, only that
\* user's entry of that date changes.
C9_ToggleTouchesOneEntry ==
    [][\A c \in Clients :
          /\ \A date \in Dates :
                toggleAvailability(c, date) =>
                  LET U == currentUser[c]
                  IN /\ availability' = availability
                     /\ \A o \in Clients \ {c} : availOutbox'[o] = availOutbox[o]
                     /\ availOutbox'[c] = Append(availOutbox[c],
                          IF localAvailability[c][date][U] # Absent
                          THEN [op |-> "remove", date |-> date, user |-> U,
                                value |-> Absent]
                          ELSE [op |-> "update", date |-> date, user |-> U,
                                value |-> JsTrue])
          /\ AvailStoreApply(c) =>
                LET w == Head(availOutbox[c])
                IN /\ \A d \in Dates : \A u \in FRIEND_GROUP :
                        (d # w.date \/ u # w.user)
                        => availability'[d][u] = availability[d][u]
                   /\ availability'[w.date][w.user] =
                        (IF w.op = "remove" THEN Absent ELSE JsTrue)]_vars

\* C9 witness: one user's entry of a date has been deleted while another
\* user's entry of the same date is in the store.
C9_Witness ==
    \E date \in Dates : \E u1, u2 \in FRIEND_GROUP :
        /\ u1 # u2
        /\ availability[date][u1] = JsTrue
        /\ availability[date][u2] = Absent
        /\ \E k \in 1..Len(availLog) :
              /\ availLog[k].date = date
              /\ currentUser[availLog[k].client] = u2
              /\ availLog[k].seen = JsTrue
        /\ \A c \in Clients : availOutbox[c] = << >>

\* C10: every entry of the store is absent or true, and no pending write
\* carries another value than true.
C10_PresenceOnly ==
    /\ \A date \in Dates : \A u \in FRIEND_GROUP :
          availability[date][u] \in {Absent, JsTrue}
    /\ \A c \in Clients : \A k \in 1..Len(availOutbox[c]) :
          availOutbox[c][k].op = "update" => availOutbox[c][k].value = JsTrue

\* C10 witness: a user has toggled a marked date off and the store has
\* applied it.
C10_Witness ==
    \E k \in 1..Len(availLog) :
        /\ availLog[k].seen = JsTrue
        /\ availOutbox[availLog[k].client] = << >>
        /\ availability[availLog[k].date][currentUser[availLog[k].client]] = Absent

----------------------------------------------------------------------------
(* Claims about sending *)

\* C11: a sendMessage call with a draft whose trimmed text is empty pushes
\* nothing and changes no state: the store, the pending writes, the draft,
\* the reply target, the autoscroll flag and the menus are as before.
C11_EmptySendIsNoOp ==
    [][\A c \in Clients :
          (sendMessage(c) /\ Trim(newMessage[c]) = "")
          => /\ messages' = messages
             /\ chatOutbox' = chatOutbox
             /\ localMessages' = localMessages
             /\ newMessage' = newMessage
             /\ replyingTo' = replyingTo
             /\ shouldAutoScroll' = shouldAutoScroll
             /\ activeActionId' = activeActionId
             /\ activeReactMenuId' = activeReactMenuId]_vars

\* C11 witness: a draft of one space has been submitted with a reply target
\* set and the reaction picker open, and nothing was pushed.
C11_Witness ==
    \E c \in Clients :
        /\ sendLog # << >>
        /\ sendLog[Len(sendLog)].client = c
        /\ sendLog[Len(sendLog)].text = " "
        /\ ~sendLog[Len(sendLog)].pushed
        /\ newMessage[c] = " "
        /\ replyingTo[c].id # NoId
        /\ activeReactMenuId[c] # NoId
        /\ chatOutbox[c] = << >>
        /\ Len(messages) = NumMessages

\* C12: a sendMessage call with a draft whose trimmed text is not empty adds
\* exactly one write to the caller's pending writes, a push of a message
\* whose sender is the caller's session user and whose text is the draft as
\* typed, and in the same step empties the draft and the reply target while
\* the store is still as before; when the store applies the push the log
\* grows by exactly that message.
C12_SendPushesOne ==
    [][\A c \in Clients :
          /\ (sendMessage(c) /\ Trim(newMessage[c]) # "")
              => /\ Len(chatOutbox'[c]) = Len(chatOutbox[c]) + 1
                 /\ SubSeq(chatOutbox'[c], 1, Len(chatOutbox[c])) = chatOutbox[c]
                 /\ LET w == chatOutbox'[c][Len(chatOutbox'[c])]
                    IN /\ w.op = "push"
                       /\ w.payload.sender = currentUser[c]
                       /\ w.payload.text = newMessage[c]
                       /\ w.payload.timestamp \in Times
                 /\ \A o \in Clients \ {c} : chatOutbox'[o] = chatOutbox[o]
                 /\ newMessage'[c] = ""
                 /\ replyingTo'[c].id = NoId
                 /\ messages' = messages
                 /\ localMessages' = localMessages
          /\ (ChatStoreApply(c) /\ Head(chatOutbox[c]).op = "push")
              => messages' = Append(messages, Head(chatOutbox[c]).payload)]_vars

\* C12 witness: the draft " yo" has been sent and stored as typed, the draft
\* and the reply target are empty.
C12_Witness ==
    \E c \in Clients :
        /\ Len(messages) = NumMessages + 1
        /\ messages[Len(messages)].text = " yo"
        /\ messages[Len(messages)].sender = currentUser[c]
        /\ sendLog # << >>
        /\ sendLog[Len(sendLog)].client = c
        /\ messages[Len(messages)].replyTo.id # NoId
        /\ newMessage[c] = ""
        /\ replyingTo[c].id = NoId

\* C13: the replyTo of a pushed reply has the id and the sender of the
\* target, and as text the target's text when that has at most 120
\* characters, and its first 120 characters followed by "..." when it has
\* more.
C13_ReplyTruncation ==
    [][\A c \in Clients :
          (sendMessage(c) /\ Trim(newMessage[c]) # "" /\ replyingTo[c].id # NoId)
          => LET r == chatOutbox'[c][Len(chatOutbox'[c])].payload.replyTo
                 t == replyingTo[c].text
             IN /\ r.id = replyingTo[c].id
                /\ r.sender = replyingTo[c].sender
                /\ Len(t) <= 120 => r.text = t
                /\ Len(t) > 120 =>
                      /\ Len(r.text) = 123
                      /\ SubSeq(r.text, 1, 120) = SubSeq(t, 1, 120)
                      /\ SubSeq(r.text, 121, 123) = "..."]_vars

\* C13 witness: a reply to a message of 121 characters is stored with a
\* replyTo text of 120 characters and the marker.
C13_Witness ==
    \E k \in DOMAIN messages :
        /\ messages[k].replyTo.id \in DOMAIN messages
        /\ Len(messages[messages[k].replyTo.id].text) = 121
        /\ Len(messages[k].replyTo.text) = 123
        /\ messages[k].replyTo.sender = messages[messages[k].replyTo.id].sender

----------------------------------------------------------------------------
(* Claims about the message log *)

\* C14: in every step, whatever write the store applies and whatever the
\* clients call, every message of the log is still in the log afterwards
\* under the same key, with the same sender, text, timestamp and replyTo.
C14_AppendOnly ==
    [][/\ Len(messages') >= Len(messages)
       /\ \A k \in DOMAIN messages :
             /\ messages'[k].sender = messages[k].sender
             /\ messages'[k].text = messages[k].text
             /\ messages'[k].timestamp = messages[k].timestamp
             /\ messages'[k].replyTo = messages[k].replyTo]_vars

\* C14 witness: a reply pushed in this session is in the log with its
\* replyTo, and a pin or reaction write has since been applied to it.
C14_Witness ==
    \E k \in DOMAIN messages :
        /\ k > NumMessages
        /\ messages[k].replyTo.id # NoId
        /\ messages[k].text = " yo"
        /\ messages[k].isPinned # Null \/ messages[k].reactions # EmptyMap

\* C15: a togglePin call adds one write to the caller's pending writes, for
\* that message's isPinned with the negation of the isPinned the caller's
\* cache holds (true when it is absent or false), and leaves the store as it
\* is; when the store applies the write, that message's isPinned takes the
\* value and its sender, text, timestamp, replyTo and reactions and all
\* other messages are unchanged.
C15_TogglePinFrame ==
    [][\A c \in Clients :
          /\ \A msgId \in MessageIds :
                (pinLog' # pinLog /\ togglePin(c, msgId)) =>
                  LET seen == localMessages[c][CHOOSE i \in FindMessage(c, msgId) :
                                                  TRUE].isPinned
                  IN /\ messages' = messages
                     /\ \A o \in Clients \ {c} : chatOutbox'[o] = chatOutbox[o]
                     /\ chatOutbox'[c] = Append(chatOutbox[c],
                            [op |-> "pin", id |-> msgId,
                             value |-> IF seen = JsTrue THEN JsFalse ELSE JsTrue])
          /\ (/\ chatOutbox'[c] # chatOutbox[c]
              /\ ChatStoreApply(c)
              /\ Head(chatOutbox[c]).op = "pin") =>
                LET w == Head(chatOutbox[c])
                IN /\ Len(messages') = Len(messages)
                   /\ messages'[w.id].isPinned = w.value
                   /\ \A k \in DOMAIN messages :
                         /\ k # w.id => messages'[k] = messages[k]
                         /\ messages'[k].sender = messages[k].sender
                         /\ messages'[k].text = messages[k].text
                         /\ messages'[k].timestamp = messages[k].timestamp
                         /\ messages'[k].replyTo = messages[k].replyTo
                         /\ messages'[k].reactions = messages[k].reactions]_vars

\* C15 witness: a message that has a reaction was pinned and then unpinned
\* by a caller that saw it pinned; the store holds isPinned false and the
\* reaction.
C15_Witness ==
    \E k \in DOMAIN messages : \E i \in 1..Len(pinLog) :
        /\ pinLog[i].id = k
        /\ pinLog[i].seen = JsTrue
        /\ messages[k].isPinned = JsFalse
        /\ messages[k].reactions # EmptyMap

\* the pending reaction writes and the pending pin writes, as <<client,
\* position>> pairs
PendingOf(ops) ==
    {p \in Clients \X (1..MaxPending + 1) :
        /\ p[2] <= Len(chatOutbox[p[1]])
        /\ chatOutbox[p[1]][p[2]].op \in ops}

\* C16: for every pending reaction write and pending pin write on the same
\* message, applying them to the store in either order gives the same log,
\* in which the message has the pin value of the one and the reaction change
\* of the other.
C16_ReactionPinCommute ==
    \A r \in PendingOf({"update", "remove"}) : \A p \in PendingOf({"pin"}) :
        LET wr == chatOutbox[r[1]][r[2]]
            wp == chatOutbox[p[1]][p[2]]
            rp == ApplyChatWrite(ApplyChatWrite(messages, wr), wp)
            pr == ApplyChatWrite(ApplyChatWrite(messages, wp), wr)
        IN wr.id = wp.id =>
             /\ rp = pr
             /\ rp[wp.id].isPinned = wp.value
             /\ Lookup(rp[wr.id].reactions, wr.user) =
                   (IF wr.op = "remove" THEN Null ELSE wr.emoji)

\* C16 witness: one client's reaction write and the other client's pin write
\* on the same message are both pending, each the next to be applied.
C16_Witness ==
    \E c, d \in Clients :
        /\ c # d
        /\ chatOutbox[c] # << >>
        /\ chatOutbox[d] # << >>
        /\ Head(chatOutbox[c]).op \in {"update", "remove"}
        /\ Head(chatOutbox[d]).op = "pin"
        /\ Head(chatOutbox[c]).id = Head(chatOutbox[d]).id

\* C17: a messages snapshot callback leaves the client with a list that has
\* one entry per message of the store, in key order, entry k carrying key k
\* as id and the stored fields of message k, whatever the list was before;
\* for an empty store the list is empty.
C17_SnapshotReplaces ==
    /\ [](messages = << >> => SnapshotList(messages) = << >>)
    /\ [][\A c \in Clients :
            (localMessages'[c] # localMessages[c] /\ MessagesSnapshot(c)) =>
              /\ Len(localMessages'[c]) = Len(messages)
              /\ \A k \in DOMAIN messages :
                    /\ localMessages'[c][k].id = k
                    /\ localMessages'[c][k].sender = messages[k].sender
                    /\ localMessages'[c][k].text = messages[k].text
                    /\ localMessages'[c][k].timestamp = messages[k].timestamp
                    /\ localMessages'[c][k].isPinned = messages[k].isPinned
                    /\ localMessages'[c][k].reactions = messages[k].reactions
                    /\ localMessages'[c][k].replyTo = messages[k].replyTo]_vars

\* C17 witness: a client whose list was not empty holds the resynced list of
\* a store that has grown by a pushed reply and changed a pin.
C17_Witness ==
    \E c \in Clients :
        /\ Len(localMessages[c]) = NumMessages + 1
        /\ localMessages[c][NumMessages + 1].id = NumMessages + 1
        /\ localMessages[c][NumMessages + 1].replyTo.id # NoId
        /\ localMessages[c][NumMessages + 1].isPinned = JsTrue
        /\ localMessages[c] = SnapshotList(messages)

----------------------------------------------------------------------------
(* Claims about convergence *)

\* client c's message list and availability map are the store's content
InSync(c) ==
    /\ localMessages[c] = SnapshotList(messages)
    /\ localAvailability[c] = availability

\* C18: with every pending write applied and every pending snapshot
\* delivered in the end, and the clients making finitely many calls, from
\* some point on every client's message list and availability map equal
\* the store's content for good.
C18_EventuallyInSync == <>[](\A c \in Clients : InSync(c))

\* C18 witness: the calls are all made, chat and calendar writes among
\* them, everything is applied and every client holds the store's content.
C18_Witness ==
    /\ AllWrites = MaxWrites
    /\ availLog # << >>
    /\ Writes > 0
    /\ \A c \in Clients :
          /\ chatOutbox[c] = << >>
          /\ availOutbox[c] = << >>
          /\ InSync(c)
    /\ \E d \in Dates : \E u \in FRIEND_GROUP : availability[d][u] = JsTrue

----------------------------------------------------------------------------
(* Claims about the menus and the long press *)

\* C19: in every reachable state of the chat at most one of the action bar
\* and the reaction picker is open: no client has activeActionId and
\* activeReactMenuId both set.
C19_AtMostOneMenu ==
    \A c \in Clients : activeActionId[c] = NoId \/ activeReactMenuId[c] = NoId

\* the long-press timeouts client c has pending
PressTimers(c) == {t \in timers[c] : t.kind = "press"}

\* pointer p of client c is a finger or pen that has been on message msgId
\* for LONG_PRESS_MS without a pointer-up, leave or cancel
LongPressed(c, p, msgId) ==
    /\ PointerType(p) # "mouse"
    /\ pointers[c][p].msgId = msgId
    /\ pointers[c][p].held >= LONG_PRESS_MS

\* a step in which the action bar of a message opens for client c
OpensActionBar(c) ==
    /\ activeActionId'[c] # NoId
    /\ activeActionId'[c] # activeActionId[c]

\* a step in which client c's mouse is pressed on a message
MousePressed(c) ==
    /\ pointers[c]["mouse"].msgId = NoId
    /\ pointers'[c]["mouse"].msgId # NoId

\* C20: at most one long-press timeout is pending, it is the one the ref
\* holds, and it belongs to a touch or pen press that is still in contact
\* with its message and has lasted as long as the timeout has run; the
\* action bar of a message opens only in a step where a touch or pen press
\* on that message has lasted 450 ms without pointer-up, leave or cancel;
\* a mouse press leaves the timeouts as they are.
C20_LongPressOnly ==
    /\ [](\A c \in Clients :
            /\ Cardinality(PressTimers(c)) <= 1
            /\ \A t \in PressTimers(c) :
                  /\ t.id = longPressTimeoutRef[c]
                  /\ PointerType(t.pointer) # "mouse"
                  /\ pointers[c][t.pointer].msgId = t.msgId
                  /\ pointers[c][t.pointer].held = t.elapsed)
    /\ [][\A c \in Clients :
            /\ OpensActionBar(c) =>
                  \E p \in Pointers : LongPressed(c, p, activeActionId'[c])
            /\ MousePressed(c) =>
                  UNCHANGED <<timers, longPressTimeoutRef, activeActionId>>]_vars

\* C20 witness: the action bar of a message is open and the finger that
\* opened it is still on the message, 450 ms after it went down.
C20_Witness ==
    \E c \in Clients : \E p \in Pointers :
        /\ activeActionId[c] # NoId
        /\ activeReactMenuId[c] = NoId
        /\ LongPressed(c, p, activeActionId[c])
        /\ skipNextClickRef[c]

\* a step in which the click of a release is dispatched, the release being
\* that of a finger or pen that had long-pressed the bubble of the message
\* whose action bar is open
LongPressReleaseClick(c) ==
    /\ releaseClick[c] # NoClick
    /\ releaseClick'[c] = NoClick
    /\ PointerType(releaseClick[c].pointer) # "mouse"
    /\ releaseClick[c].on = "body"
    /\ releaseClick[c].held >= LONG_PRESS_MS
    /\ releaseClick[c].msgId = activeActionId[c]

\* C21: the click that follows the release of a long press that opened the
\* action bar leaves the action bar open, however long the finger stayed
\* down after the bar opened.
C21_ReleaseKeepsActionBar ==
    [][\A c \in Clients :
          LongPressReleaseClick(c) => activeActionId'[c] = activeActionId[c]]_vars

----------------------------------------------------------------------------
(* Claims about the gestures on a date cell *)

\* a step in which pointer p of client c ends its press on a date cell:
\* pointer-up, leave or cancel
EndsDatePress(c, p) ==
    /\ calPointers[c][p].date # NoDate
    /\ calPointers'[c][p].date = NoDate

\* a step in which the long-press timeout t of client c runs
TimeoutRuns(c, t) ==
    /\ CalDue(t)
    /\ calTimers'[c] = calTimers[c] \ {t}
    /\ calLongPressTimeoutRef'[c] = calLongPressTimeoutRef[c]
    /\ calPointers'[c] = calPointers[c]

\* the press that set timeout t is still on its date cell and has lasted
\* 500 ms
StillPressed(c, t) ==
    /\ PointerType(t.pointer) # "mouse"
    /\ calPointers[c][t.pointer].date = t.date
    /\ calPointers[c][t.pointer].held >= CAL_LONG_PRESS_MS

\* C22: a long-press timeout of the calendar runs (the detail callback
\* fires) only while the finger or pen that set it is still down on its
\* date cell, 500 ms after it went down; and after any pointer-up, leave or
\* cancel no long-press timeout is pending, also when a second press began
\* before the first one ended.
C22_DetailOnlyAfterHold ==
    [][\A c \in Clients :
          /\ \A t \in calTimers[c] : TimeoutRuns(c, t) => StillPressed(c, t)
          /\ (\E p \in Pointers : EndsDatePress(c, p)) => calTimers'[c] = {}]_vars

\* a step in which the click of a release on a date cell toggles the
\* user's presence
ClickToggles(c) ==
    /\ calClick[c] # NoDateClick
    /\ calClick'[c] = NoDateClick
    /\ availLog' # availLog

\* a step in which the detail view of client c opens
DetailOpens(c) ==
    /\ attendeeModalData'[c] # NoModal
    /\ attendeeModalData'[c] # attendeeModalData[c]

\* C23: each gesture on a date cell has one effect. A press during which
\* the detail view opened (the view covers the calendar, so it is open at
\* the release only if it opened during the press) does not toggle the
\* user's presence with the click of its release; the press of a quick tap
\* leaves no timeout that could open the detail view; and the step that
\* opens the detail view (long press or right click) issues no toggle.
C23_OneEffectPerGesture ==
    [][\A c \in Clients :
          /\ ClickToggles(c) => attendeeModalData[c] = NoModal
          /\ \A p \in Pointers :
                (EndsDatePress(c, p) /\ calClick'[c] # NoDateClick
                    /\ calPointers[c][p].held < CAL_LONG_PRESS_MS) =>
                   \A t \in calTimers'[c] : t.pointer # p
          /\ DetailOpens(c) =>
                availLog' = availLog /\ availOutbox' = availOutbox]_vars

----------------------------------------------------------------------------
(* Claims about the render helpers *)

\* the tier of an intensity class: 0 for the class of an empty date, 4 for
\* the heaviest
TierOf(class) == (CHOOSE k \in 1..5 : IntensityClasses[k] = class) - 1

\* the tier the ratio count / total falls in, in percent
TierOfRatio(count, total) ==
    IF count = 0 THEN 0
    ELSE IF \E k \in 1..3 : 100 * count <= 25 * k * total
         THEN CHOOSE k \in 1..3 :
                 /\ 100 * count <= 25 * k * total
                 /\ \A j \in 1..(k - 1) : 100 * count > 25 * j * total
         ELSE 4

\* C24: for every count in 0..total, total >= 1, the class returned is that
\* of tier 0 when count = 0, else of the first of the tiers <=25%, <=50%,
\* <=75% whose inclusive upper bound is at least count/total, else of the
\* tier >75%; and for that total the tier never decreases as the count
\* grows.
C24_IntensityTier ==
    result.done =>
        /\ TierOf(result.value) = TierOfRatio(args.count, args.totalUsers)
        /\ \A n \in 0..(args.count - 1) :
              TierOf(getIntensityClass(n, args.totalUsers))
                  <= TierOf(result.value)

\* C24 witness: 2 of 8 has been rendered in the tier <=25%.
C24_Witness ==
    /\ result.done
    /\ args = [count |-> 2, totalUsers |-> 8]
    /\ result.value = IntensityClasses[2]

\* the maximal runs of consecutive messages of one sender, as index pairs
SenderRuns(msgs) ==
    {r \in (1..Len(msgs)) \X (1..Len(msgs)) :
        /\ r[1] <= r[2]
        /\ \A k \in r[1]..r[2] : msgs[k].sender = msgs[r[1]].sender
        /\ r[1] = 1 \/ msgs[r[1] - 1].sender # msgs[r[1]].sender
        /\ r[2] = Len(msgs) \/ msgs[r[2] + 1].sender # msgs[r[2]].sender}

\* C25: in the rendered main list message i is first-in-group iff it is the
\* first message or message i-1 has another sender, last-in-group iff it is
\* the last message or message i+1 has another sender, and shows its
\* timestamp iff it is last-in-group; so every maximal same-sender run has
\* exactly one first, one last and one timestamp.
C25_GroupingByRuns ==
    result.done =>
        /\ Len(result.value) = Len(args)
        /\ \A i \in 1..Len(args) :
              /\ result.value[i].id = args[i].id
              /\ result.value[i].isFirstInGroup
                    <=> (i = 1 \/ args[i - 1].sender # args[i].sender)
              /\ result.value[i].isLastInGroup
                    <=> (i = Len(args) \/ args[i + 1].sender # args[i].sender)
              /\ result.value[i].showTimestamp
                    <=> result.value[i].isLastInGroup
        /\ \A r \in SenderRuns(args) :
              /\ {i \in r[1]..r[2] : result.value[i].isFirstInGroup} = {r[1]}
              /\ {i \in r[1]..r[2] : result.value[i].isLastInGroup} = {r[2]}
              /\ {i \in r[1]..r[2] : result.value[i].showTimestamp} = {r[2]}

\* C25 witness: the list of two messages of one sender followed by one of
\* another has been rendered: the first opens the group, the second closes
\* it and shows the timestamp, the third is a group of its own.
C25_Witness ==
    /\ result.done
    /\ args = MessagesOf(<<"Drex", "Drex", "Ryan">>)
    /\ result.value[1].isFirstInGroup /\ ~result.value[1].showTimestamp
    /\ ~result.value[2].isFirstInGroup /\ result.value[2].showTimestamp
    /\ result.value[3].isFirstInGroup /\ result.value[3].showTimestamp

\* the index of the first entry with that emoji, and of the user's entry
FirstWith(entries, emoji) ==
    CHOOSE i \in 1..Len(entries) :
        /\ entries[i][2] = emoji
        /\ \A j \in 1..(i - 1) : entries[j][2] # emoji
EntryOf(entries, user) ==
    CHOOSE i \in 1..Len(entries) : entries[i][1] = user

\* C26: getGroupedReactions returns one group per distinct emoji of the
\* map, in the order of the emojis' first occurrences; every user of the
\* map is listed once, in the group of the emoji they reacted with, and no
\* one else is listed; the users of a group are in the order of the map.
C26_GroupedReactions ==
    result.done =>
        LET g == result.value
            places == {pl \in (1..Len(g)) \X (1..Len(args)) :
                          pl[2] <= Len(g[pl[1]][2])}
        IN  /\ {g[k][1] : k \in 1..Len(g)}
                  = {args[i][2] : i \in 1..Len(args)}
            /\ \A k, l \in 1..Len(g) :
                  k < l => /\ g[k][1] # g[l][1]
                           /\ FirstWith(args, g[k][1])
                                  < FirstWith(args, g[l][1])
            /\ \A i \in 1..Len(args) :
                  \E pl \in places :
                      /\ g[pl[1]][2][pl[2]] = args[i][1]
                      /\ g[pl[1]][1] = args[i][2]
                      /\ \A other \in places :
                            g[other[1]][2][other[2]] = args[i][1]
                                => other = pl
            /\ \A pl \in places :
                  \E i \in 1..Len(args) : args[i][1] = g[pl[1]][2][pl[2]]
            /\ \A k \in 1..Len(g) : \A p, q \in 1..Len(g[k][2]) :
                  p < q => EntryOf(args, g[k][2][p]) < EntryOf(args, g[k][2][q])

\* C26 witness: a map of three users, the first and third with one emoji,
\* has been grouped: that emoji's group comes first and holds both users.
C26_Witness ==
    /\ result.done
    /\ args = <<<<"Cassey", "heart">>, <<"Drex", "thumbsup">>,
                <<"Glad", "heart">> >>
    /\ result.value = <<<<"heart", <<"Cassey", "Glad">> >>,
                        <<"thumbsup", <<"Drex">> >> >>

\* the positions of the local list whose message has isPinned true
PinnedIndices(c) ==
    {i \in 1..Len(localMessages[c]) : localMessages[c][i].isPinned = JsTrue}

SuccessfulSend(c) ==
    /\ Len(sendLog') = Len(sendLog) + 1
    /\ sendLog'[Len(sendLog')].client = c
    /\ sendLog'[Len(sendLog')].pushed

\* a step in which c's main list was scrolled and nothing was sent,
\* resynced, opened or closed
ScrollStep(c) ==
    /\ scrollGap'[c] # scrollGap[c]
    /\ sendLog' = sendLog
    /\ localMessages'[c] = localMessages[c]
    /\ showPinnedView'[c] = showPinnedView[c]

\* a step in which c's local list was resynced
ResyncStep(c) == localMessages'[c] # localMessages[c]

\* C28: shouldAutoScroll changes only in a scroll event and in a successful
\* send; a scroll event leaves it equal to whether the list is less than
\* NEAR_BOTTOM_PX from the bottom, a successful send leaves it true, a resync
\* leaves it as it was; and a resync scrolls to the bottom only if the flag
\* is true and the pinned view is closed.
C28_AutoScrollFlag ==
    [][\A c \in Solo :
          /\ shouldAutoScroll'[c] # shouldAutoScroll[c]
                => SuccessfulSend(c) \/ ScrollStep(c)
          /\ ScrollStep(c)
                => shouldAutoScroll'[c] = (scrollGap'[c] < NEAR_BOTTOM_PX)
          /\ SuccessfulSend(c) => shouldAutoScroll'[c]
          /\ ResyncStep(c)
                => /\ shouldAutoScroll'[c] = shouldAutoScroll[c]
                   /\ smartScroll'[c] = "scrolled"
                         => shouldAutoScroll[c] /\ ~showPinnedView[c]]_vars

\* C28 witness: the user has sent a message and then scrolled away from the
\* bottom; the resync that brought the message in did not scroll.
C28_Witness ==
    /\ sendLog # << >>
    /\ sendLog[1].client = "c1" /\ sendLog[1].pushed
    /\ ~shouldAutoScroll["c1"]
    /\ ~showPinnedView["c1"]
    /\ Len(localMessages["c1"]) = NumMessages + 1
    /\ scrollGap["c1"] = NEAR_BOTTOM_PX
    /\ smartScroll["c1"] = "skipped"

\* C29: while the photo step is shown the session is not signed in by the
\* next step and the mode stays or becomes create; it becomes create either
\* by the skip, which writes nothing and starts no call, or when a save of
\* the selected profile's photo resumes after the store has written the
\* avatar to users/{name}/avatar.
C29_PhotoLeadsToCreatingPin ==
    [][\A c \in Solo :
          PhotoScreen(c) =>
              /\ currentUser'[c] = Null
              /\ mode'[c] \in {"onboarding_photo", "create"}
              /\ mode'[c] = "create" =>
                    \/ /\ tasks'[c] = tasks[c]
                       /\ avatars' = avatars
                    \/ \E t \in BagToSet(tasks[c]) :
                          /\ t.kind = "save"
                          /\ t.phase = "served"
                          /\ t.name = selectedFriend[c]
                          /\ avatars[t.name] = t.val
                          /\ tasks'[c] = Without(tasks[c], t)]_vars

\* C30: a paste of four digits sets the four PIN fields to its characters in
\* one step and starts the submission that digit-by-digit entry starts, with
\* the pasted text as the PIN; a paste with a character that is not a digit
\* among its first four leaves the fields as they are
C30_PasteSetsAndSubmits ==
    [][\A c \in Solo : \A text \in ClipboardTexts :
          (PinScreen(c) /\ tasks[c] = EmptyBag /\ handlePaste(c, text)) =>
              LET first == 1..Min(Len(text), PinLen)
              IN /\ (Len(text) = PinLen /\ \A i \in first : text[i] \in Digits)
                       => /\ pinDigits'[c] = text
                          /\ tasks'[c] = With(tasks[c], SubmitTask(c, text))
                          /\ SubmitTask(c, text).pin = Join(text)
                          /\ loading'[c]
                 /\ (\E i \in first : text[i] \notin Digits)
                       => /\ pinDigits'[c] = pinDigits[c]
                          /\ tasks'[c] = tasks[c]]_vars

\* the strings of four decimal digits
FourDigitPins == {Join(d) : d \in [1..PinLen -> Digits]}

\* C31: every value stored at users/{name}/pin is a string of four decimal
\* digits, no character typed or pasted into a PIN field that is not a digit
\* being taken
C31_StoredPinIsFourDigits ==
    \A name \in FRIEND_GROUP : pins[name] \in {Null} \cup FourDigitPins

\* the continuation of a save whose write was rejected runs in the mounted
\* selector
FailedSaveResumes(c, t) ==
    /\ t \in BagToSet(tasks[c])
    /\ t.kind = "save"
    /\ t.phase = "failed"
    /\ Live(c, t)
    /\ tasks'[c] = Without(tasks[c], t)

\* C32: when the avatar write of the photo step fails, the flag loading is
\* reset, the mode stays as it is (no move to the PIN screen), no avatar is
\* stored, and on the photo screen the save can be started again or, with
\* no image chosen, the step can be skipped
C32_FailedSaveStays ==
    [][\A c \in Solo : \A t \in BagToSet(tasks[c]) :
          FailedSaveResumes(c, t) =>
              /\ ~loading'[c]
              /\ mode'[c] = mode[c]
              /\ avatars' = avatars
              /\ PhotoScreen(c) =>
                    /\ PhotoScreen(c)'
                    /\ imageSrc'[c] = Null \/ ~loading'[c]]_vars

\* a save has failed on the photo screen: the image is still chosen, nothing
\* is stored and nothing is loading
C32_Witness ==
    \E c \in Solo :
        /\ PhotoScreen(c)
        /\ error[c] = "Failed to save image"
        /\ imageSrc[c] # Null
        /\ ~loading[c]
        /\ avatars[selectedFriend[c]] = Null

\* C33: when the lookup of a profile tap has failed and no call is pending,
\* the selector shows a screen the user can act on (the grid with its
\* profile buttons, as before the tap)
C33_FailedLookupLeavesGrid ==
    \A c \in Solo :
        (Mounted(c) /\ tasks[c] = EmptyBag) => UserCanAct(c)

\* the store applies a reaction write of client c
ReactionApplied(c) ==
    /\ chatOutbox[c] # << >>
    /\ Head(chatOutbox[c]).op \in {"update", "remove"}
    /\ chatOutbox'[c] = Tail(chatOutbox[c])

\* C34: every stored reaction is one emoji of the picker under the name of
\* a user, one per user and message, and a reaction write of a user changes
\* no entry but that user's on that message, whatever other writes are
\* pending
C34_ReactionPerUser ==
    /\ [](\A id \in DOMAIN messages :
             \A user \in DOMAIN messages[id].reactions :
                 /\ user \in FRIEND_GROUP
                 /\ messages[id].reactions[user] \in EMOJIS)
    /\ [][\A c \in Clients :
             ReactionApplied(c) =>
                 /\ Head(chatOutbox[c]).user = currentUser[c]
                 /\ DOMAIN messages' = DOMAIN messages
                 /\ \A id \in DOMAIN messages : \A user \in FRIEND_GROUP :
                        (id # Head(chatOutbox[c]).id \/ user # currentUser[c])
                        => Lookup(messages'[id].reactions, user)
                              = Lookup(messages[id].reactions, user)]_vars

\* two users hold different reactions on one message
C34_Witness ==
    \E id \in DOMAIN messages :
        /\ DOMAIN messages[id].reactions = FRIEND_GROUP
        /\ messages[id].reactions["Ryan"] # messages[id].reactions["Drex"]

\* a call of sendMessage, toggleReaction, togglePin or toggleAvailability
WriteCall ==
    \/ sendLog' # sendLog
    \/ reactionLog' # reactionLog
    \/ pinLog' # pinLog
    \/ availLog' # availLog

\* C35: the calls that write leave the cached message list and the cached
\* availability map of every client as they are; a cache changes only by
\* taking the store's content in a subscription callback
C35_WritesLeaveCache ==
    [][/\ WriteCall => /\ localMessages' = localMessages
                       /\ localAvailability' = localAvailability
       /\ \A c \in Clients :
             /\ localMessages'[c] # localMessages[c]
                   => /\ localMessages'[c] = SnapshotList(messages)
                      /\ messages' = messages
                      /\ chatOutbox' = chatOutbox
             /\ localAvailability'[c] # localAvailability[c]
                   => /\ localAvailability'[c] = availability
                      /\ availability' = availability
                      /\ availOutbox' = availOutbox]_vars

\* a toggle of the calendar and a pin toggle have been made and applied and
\* the caller's cache does not show the calendar write yet
C35_Witness ==
    \E c \in Clients :
        /\ availLog # << >> /\ availLog[1].client = c
        /\ pinLog # << >>
        /\ availOutbox[c] = << >>
        /\ localAvailability[c] # availability

\* the togglePin calls made for message id, in call order
PinCalls(id) == SelectSeq(pinLog, LAMBDA call : call.id = id)

\* no pin write is pending
PinsApplied ==
    \A c \in Clients : \A i \in 1..Len(chatOutbox[c]) :
        chatOutbox[c][i].op # "pin"

\* C36: the value togglePin writes is the negation of the isPinned of the
\* caller's cached message, absent counting as false: once applied, a single
\* toggle leaves the negation of what its caller saw (true for a first toggle),
\* and so do the toggles of two clients that saw the same value: the message
\* is flipped once, not back to the value they saw
C36_PinFromCache ==
    \A id \in DOMAIN messages :
        LET calls == PinCalls(id)
        IN (/\ PinsApplied
            /\ \/ Len(calls) = 1
               \/ /\ Len(calls) = 2
                  /\ calls[1].client # calls[2].client
                  /\ calls[1].seen = calls[2].seen)
           => messages[id].isPinned = JsNot(calls[1].seen)

\* two clients have toggled the pin of a message neither saw pinned, and
\* the store holds it pinned
C36_Witness ==
    \E id \in DOMAIN messages :
        LET calls == PinCalls(id)
        IN /\ PinsApplied
           /\ Len(calls) = 2
           /\ calls[1].client # calls[2].client
           /\ calls[1].seen = Null /\ calls[2].seen = Null
           /\ messages[id].isPinned = JsTrue

\* C37: whenever a client is signed in under a name, the store holds a PIN
\* for that name
C37_SignedInHasPin ==
    \A c \in Clients :
        currentUser[c] # Null => pins[currentUser[c]] # Null

\* a client is signed in under a name whose PIN it has just created
C37_Witness ==
    \E c \in Solo :
        /\ currentUser[c] # Null
        /\ pins[currentUser[c]] = "1112"

\* a call of toggleReaction or togglePin, a send that pushes, or Reply chosen
\* on a message
ClosingCall(c) ==
    \/ reactionLog' # reactionLog
          /\ reactionLog'[Len(reactionLog')].client = c
    \/ pinLog' # pinLog /\ pinLog'[Len(pinLog')].client = c
    \/ SuccessfulSend(c)
    \/ replyingTo'[c] # replyingTo[c] /\ replyingTo'[c].id # NoId

\* C38: after toggleReaction, togglePin, a send that pushes, or Reply, the
\* caller has no menu open: neither the action bar nor the reaction picker
C38_CallsCloseMenus ==
    [][\A c \in Solo :
          ClosingCall(c) =>
              /\ activeActionId'[c] = NoId
              /\ activeReactMenuId'[c] = NoId]_vars

\* C39: when the detail callback runs for a date, by the long-press timeout
\* or by a right click, the names it passes are the users with an entry for
\* that date in the client's cached availability at that moment
C39_DetailNamesFromCache ==
    [][\A c \in Solo :
          (attendeeModalData'[c] # attendeeModalData[c]
              /\ attendeeModalData'[c] # NoModal)
          => attendeeModalData'[c].names
                = Attendees(c, attendeeModalData'[c].date)]_vars

----------------------------------------------------------------------------
(* One device through its sessions: signing in on the selector, writing to *)
(* the chat and the calendar as the session user, Switch Profile           *)

\* App renders the heatmap and the chat only while currentUser is set
ChatMounted(c) == currentUser[c] # Null

\* the selector's steps, Switch Profile apart
SessionProfile(c) ==
    /\ \/ \E name \in FRIEND_GROUP : handleProfileClick(c, name)
       \/ \E t \in BagToSet(tasks[c]) : ServeGet(c, t)
       \/ \E t \in BagToSet(tasks[c]) : handleProfileClickResume(c, t)
       \/ handleSkipPhoto(c)
       \/ \E value \in TypedAt(focus[c]) : TypeKey(c, value)
       \/ Cancel(c)
       \/ \E t \in BagToSet(tasks[c]) : ServeSetPin(c, t)
       \/ \E t \in BagToSet(tasks[c]) : submitPinResume(c, t)
    /\ UNCHANGED <<chatVars, availVars, composeVars, pinLog, pressVars,
                   calVars, pureVars, viewVars, photoVars>>

\* Switch Profile: the heatmap and the chat are unmounted and their state is
\* initialised again at the next mount; the writes already issued stay
SessionSwitch(c) ==
    /\ SwitchProfile(c)
    /\ localMessages' = [localMessages EXCEPT ![c] = << >>]
    /\ activeReactMenuId' = [activeReactMenuId EXCEPT ![c] = NoId]
    /\ activeActionId' = [activeActionId EXCEPT ![c] = NoId]
    /\ skipNextClickRef' = [skipNextClickRef EXCEPT ![c] = FALSE]
    /\ newMessage' = [newMessage EXCEPT ![c] = ""]
    /\ replyingTo' = [replyingTo EXCEPT ![c] = NoMessage]
    /\ shouldAutoScroll' = [shouldAutoScroll EXCEPT ![c] = TRUE]
    /\ localAvailability' = [localAvailability EXCEPT ![c] =
           [d \in Dates |-> [u \in FRIEND_GROUP |-> Absent]]]
    /\ UNCHANGED <<messages, chatOutbox, reactionLog, sendLog, pinLog,
                   availability, availOutbox, availLog, pressVars, calVars,
                   pureVars, viewVars, photoVars>>

SessionSend(c) ==
    /\ ChatMounted(c)
    /\ AllWrites < MaxWrites
    /\ \/ setNewMessage(c, " yo") /\ UNCHANGED <<chatVars, pinLog>>
       \/ sendMessage(c) /\ UNCHANGED pinLog
    /\ UNCHANGED <<profileVars, availVars, pressVars, calVars, pureVars,
                   viewVars, photoVars>>

SessionReaction(c) ==
    /\ ChatMounted(c)
    /\ AllWrites < MaxWrites
    /\ \E msgId \in MessageIds : \E emoji \in EMOJIS :
           /\ FindMessage(c, msgId) # {}
           /\ toggleReaction(c, msgId, emoji)
    /\ UNCHANGED <<profileVars, availVars, composeVars, pinLog, pressVars,
                   calVars, pureVars, viewVars, photoVars>>

SessionAvailability(c) ==
    /\ ChatMounted(c)
    /\ AllWrites < MaxWrites
    /\ \E date \in Dates : toggleAvailability(c, date)
    /\ UNCHANGED <<profileVars, chatVars, composeVars, pinLog, pressVars,
                   calVars, pureVars, viewVars, photoVars>>

SessionNext ==
    \E c \in Solo :
        \/ SessionProfile(c)
        \/ SessionSwitch(c)
        \/ SessionSend(c)
        \/ SessionReaction(c)
        \/ SessionAvailability(c)
        \/ ChatApplied(c)
        \/ ChatMounted(c) /\ ChatDelivered(c)
        \/ AvailApplied(c)
        \/ ChatMounted(c) /\ AvailDelivered(c)

SpecSession == OnboardingInit /\ [][SessionNext]_vars

\* the users present for a date in the store
Present(date) ==
    {u \in DOMAIN availability[date] : availability[date][u] # Absent}

\* the names a chat write of the outbox carries: the sender of a pushed
\* message, the key of a reaction
WriteNames(w) ==
    IF w.op = "push" THEN {w.payload.sender}
    ELSE IF w.op \in {"update", "remove"} THEN {w.user}
    ELSE {}

\* C40: every message sender and every reaction key, in the store and in
\* the writes on their way to it, is a name of the roster, and so is the
\* user of every availability write; no date has more users present than
\* the roster has names
C40_NamesAreRoster ==
    /\ \A i \in DOMAIN messages :
          /\ messages[i].sender \in FRIEND_GROUP
          /\ DOMAIN messages[i].reactions \subseteq FRIEND_GROUP
    /\ \A c \in Clients :
          /\ \A i \in DOMAIN chatOutbox[c] :
                WriteNames(chatOutbox[c][i]) \subseteq FRIEND_GROUP
          /\ \A i \in DOMAIN availOutbox[c] :
                availOutbox[c][i].user \in FRIEND_GROUP
    /\ \A date \in Dates :
          Cardinality(Present(date)) <= Cardinality(FRIEND_GROUP)

\* a message of one user and a mark of another, written from one device in
\* two sessions
C40_Witness ==
    /\ \E i \in DOMAIN messages : messages[i].sender = "Drex"
    /\ \E date \in Dates : availability[date]["Ryan"] = JsTrue

====
